---- MODULE Spec2Model ----
(***************************************************************************)
(* Binary clock core API (binary_clock_api.c): decimal <-> binary digit    *)
(* conversion, decomposition of a time of day into six binary digits, and  *)
(* the reading of the system clock by binary_clock_get_current_state.      *)
(* Display layer (binary_clock_display.c): the registry of display         *)
(* callbacks, the dispatch of a state to them, and the readable time.      *)
(*                                                                         *)
(* C arrays are 0-based, TLA+ sequences 1-based: bits[i] of the source is  *)
(* bits[i + 1] here.  A pointer is a sequence: <<>> is NULL and <<x>> is a *)
(* pointer to x.                                                           *)
(***************************************************************************)
EXTENDS Integers, Sequences, FiniteSets, TLC

VARIABLES
    value,          \* to_binary: argument value (uint8_t)
    bit_count,      \* to_binary: argument bit_count (uint8_t)
    binary,         \* pointer to the binary_value_t returned by binary_clock_to_binary
    recovered,      \* the uint8_t returned by binary_clock_to_decimal (-1: not called)
    conv_pc,        \* position of the conversion caller
    time_comp,      \* state_from_time: argument (pointer to a time_components_t)
    state,          \* pointer to the binary_clock_state_t state_from_time returned
    now,            \* the system clock: seconds since the epoch
    tmbuf,          \* the static struct tm that localtime() fills and returns
    pc,             \* per caller: position in binary_clock_get_current_state
    current_time,   \* per caller: time_t current_time of get_current_time
    result,         \* per caller: time_components_t result of get_current_time
    ret,            \* per caller: pointer to the state the call returned
    failed,         \* history, per caller: time() or localtime() failed in this call
    own,            \* history, per caller: pointer to what its localtime() computed
    display_registry,     \* static display_entry_t display_registry[16]
    next_registration_id, \* static int next_registration_id
    last,           \* history: the most recent display call, its arguments and outcome
    issued,         \* history: the successful registrations, in the order made
    unregistered,   \* history: the ids whose unregister call returned success
    holder,         \* history, per slot: the id most recently registered into it
    time_string,    \* what binary_clock_display_get_time_string returned and wrote
    cli,            \* main(): its arguments, its config_t, its position and its exit
    legacy_buffer,  \* legacy to_binary: the bytes at and after its buffer argument
    rthread,        \* per thread: position and locals in binary_clock_display_register
    dispatch,       \* the running binary_clock_display_update_all_with_state loop
    bits_read       \* history: the indices of bits[] binary_clock_to_decimal read

convVars == <<value, bit_count, binary, recovered, conv_pc>>
timeVars == <<time_comp, state>>
callVars == <<tmbuf, pc, current_time, result, ret, failed, own>>
regVars == <<display_registry, next_registration_id, last, issued, unregistered, holder>>
extVars == <<cli, legacy_buffer, rthread, dispatch, bits_read>>

vars == <<value, bit_count, binary, recovered, conv_pc, time_comp, state, now,
          tmbuf, pc, current_time, result, ret, failed, own,
          display_registry, next_registration_id, last, issued, unregistered,
          holder, time_string, cli, legacy_buffer, rthread, dispatch, bits_read>>

-----------------------------------------------------------------------------
(* Bounds of the model *)

\* largest hours, minutes and seconds arguments tried besides UINT8_MAX
MaxHoursArg == 25
MaxMinutesArg == 61
MaxSecondsArg == 61

\* number of seconds the system clock advances during a run
MaxTicks == 2

\* number of arguments the command line program is started with
MaxArgs == 2

\* number of turns of the loop of main() followed
MaxIterations == 2

\* largest width and largest value handed to the legacy to_binary
MaxLegacyBits == 8
MaxLegacyValue == 255

\* number of registry calls the renderers make while dispatches run
MaxReentrantCalls == 2

\* largest bit_count of a hand-built binary_value_t (the field holds up to
\* UINT8_MAX); large enough for a shift by more than the width of int
MaxHandBuiltBitCount == 40

\* the second renderer is registered only as one of the first MaxOtherIds
\* registrations; the display callers make at most MaxUnregisters successful
\* unregister calls
MaxOtherIds == 1
MaxUnregisters == 1

-----------------------------------------------------------------------------
(* C integer arithmetic *)

UINT8_MAX == 255

Uint8(n) == n % (UINT8_MAX + 1)

RECURSIVE Pow2(_)
Pow2(n) == IF n = 0 THEN 1 ELSE 2 * Pow2(n - 1)

\* a << n and a >> n on non-negative int operands
ShiftLeft(a, n) == a * Pow2(n)
ShiftRight(a, n) == a \div Pow2(n)

\* a & b and a | b, bit by bit
RECURSIVE BitAnd(_, _)
BitAnd(a, b) ==
    IF a = 0 \/ b = 0 THEN 0
    ELSE (IF a % 2 = 1 /\ b % 2 = 1 THEN 1 ELSE 0) + 2 * BitAnd(a \div 2, b \div 2)

RECURSIVE BitOr(_, _)
BitOr(a, b) ==
    IF a = 0 THEN b
    ELSE IF b = 0 THEN a
    ELSE (IF a % 2 = 1 \/ b % 2 = 1 THEN 1 ELSE 0) + 2 * BitOr(a \div 2, b \div 2)

NULL == <<>>
Ptr(x) == <<x>>
Deref(p) == p[1]

-----------------------------------------------------------------------------
(* binary_value_t and the conversions *)

\* number of slots of binary_value_t.bits
BITS_CAPACITY == 6

\* binary_value_t result = {0}
ZeroBinaryValue ==
    [bit_count |-> 0, bits |-> [i \in 1..BITS_CAPACITY |-> FALSE], decimal_value |-> 0]

\* value & max_value when value > max_value, else value
TruncateDropped(v, max_value) == v
Truncate(v, max_value) == IF v > max_value THEN BitAnd(v, max_value) ELSE v

\* bits[i] = (value >> (bit_count - 1 - i)) & 1, for the C index i
BitAtLsbFirst(v, bc, i) == BitAnd(ShiftRight(v, i), 1) = 1
BitAt(v, bc, i) == BitAnd(ShiftRight(v, bc - 1 - i), 1) = 1

\* bit_count < 1 || bit_count > 6
BitCountInvalidOffByOne(bc) == bc < 1 \/ bc > BITS_CAPACITY + 1
BitCountInvalid(bc) == bc < 1 \/ bc > BITS_CAPACITY

binary_clock_to_binary(v, bc) ==
    IF BitCountInvalid(bc) THEN ZeroBinaryValue
    ELSE LET max_value == Uint8(ShiftLeft(1, bc) - 1)
             val == Truncate(v, max_value)
         IN  [bit_count |-> bc,
              decimal_value |-> val,
              bits |-> [i \in 1..BITS_CAPACITY |->
                          IF i - 1 < bc THEN BitAt(val, bc, i - 1) ELSE FALSE]]

\* the loop of binary_clock_to_decimal from index i on, result so far acc
DecimalWeightLsbFirst(bc, i) == ShiftLeft(1, i)
DecimalWeight(bc, i) == ShiftLeft(1, bc - 1 - i)

RECURSIVE ToDecimalLoop(_, _, _)
ToDecimalLoop(b, i, acc) ==
    IF i >= b.bit_count THEN acc
    ELSE ToDecimalLoop(b, i + 1,
            IF b.bits[i + 1] THEN Uint8(BitOr(acc, DecimalWeight(b.bit_count, i)))
            ELSE acc)

binary_clock_to_decimal(p) ==
    IF p = NULL \/ Deref(p).bit_count = 0 THEN 0
    ELSE ToDecimalLoop(Deref(p), 0, 0)

-----------------------------------------------------------------------------
(* The system clock *)

SecondsPerDay == 24 * 60 * 60

\* the clock starts at the epoch or one second before the end of a day
StartTimes == {0, SecondsPerDay - 1}

\* time(NULL): the clock, or (time_t)-1 on failure
TimeResults == {-1, now}

-----------------------------------------------------------------------------
(* binary_clock_state_t and binary_clock_state_from_time *)

\* binary_clock_state_t result = {0}
ZeroState ==
    [hours_tens |-> ZeroBinaryValue, hours_units |-> ZeroBinaryValue,
     minutes_tens |-> ZeroBinaryValue, minutes_units |-> ZeroBinaryValue,
     seconds_tens |-> ZeroBinaryValue, seconds_units |-> ZeroBinaryValue,
     timestamp |-> 0]

\* widths passed to binary_clock_to_binary
TENS_BITS == 3
UNITS_BITS == 4

\* hours > 23 || minutes > 59 || seconds > 59
TimeInvalidOffByOne(tc) == tc.hours > 24 \/ tc.minutes > 60 \/ tc.seconds > 60
TimeInvalid(tc) == tc.hours > 23 \/ tc.minutes > 59 \/ tc.seconds > 59

\* value / 10 and value % 10
TensOfRounded(v) == (v + 5) \div 10
TensOf(v) == v \div 10
UnitsOfHex(v) == v % 16
UnitsOf(v) == v % 10

\* t is what time(NULL) returns when the function asks for the timestamp
binary_clock_state_from_time(p, t) ==
    IF p = NULL THEN ZeroState
    ELSE IF TimeInvalid(Deref(p)) THEN ZeroState
    ELSE LET tc == Deref(p)
         IN  [hours_tens |-> binary_clock_to_binary(TensOf(tc.hours), TENS_BITS),
              hours_units |-> binary_clock_to_binary(UnitsOf(tc.hours), UNITS_BITS),
              minutes_tens |-> binary_clock_to_binary(TensOf(tc.minutes), TENS_BITS),
              minutes_units |-> binary_clock_to_binary(UnitsOf(tc.minutes), UNITS_BITS),
              seconds_tens |-> binary_clock_to_binary(TensOf(tc.seconds), TENS_BITS),
              seconds_units |-> binary_clock_to_binary(UnitsOf(tc.seconds), UNITS_BITS),
              timestamp |-> t]

-----------------------------------------------------------------------------
(* Callers of the conversions *)

BitCountArgs == 0..UINT8_MAX
ValueArgs == 0..UINT8_MAX

\* binary = binary_clock_to_binary(value, bits)
ToBinary ==
    /\ conv_pc = "start"
    /\ binary' = Ptr(binary_clock_to_binary(value, bit_count))
    /\ conv_pc' = "converted"
    /\ UNCHANGED <<value, bit_count, recovered, timeVars, now, callVars,
                   regVars, time_string, extVars>>

\* recovered = binary_clock_to_decimal(&binary)
ToDecimal ==
    /\ conv_pc = "converted"
    /\ recovered' = binary_clock_to_decimal(binary)
    /\ conv_pc' = "recovered"
    /\ UNCHANGED <<value, bit_count, binary, timeVars, now, callVars,
                   regVars, time_string, extVars>>

\* decimal = binary_clock_to_decimal(NULL)
ToDecimalNull ==
    /\ conv_pc = "start"
    /\ recovered' = binary_clock_to_decimal(NULL)
    /\ conv_pc' = "recovered"
    /\ UNCHANGED <<value, bit_count, binary, timeVars, now, callVars,
                   regVars, time_string, extVars>>

-----------------------------------------------------------------------------
(* Callers of binary_clock_state_from_time *)

HoursArgs == 0..MaxHoursArg \cup {UINT8_MAX}
MinutesArgs == 0..MaxMinutesArg \cup {UINT8_MAX}
SecondsArgs == 0..MaxSecondsArg \cup {UINT8_MAX}

TimeComponents(h, m, s) == [hours |-> h, minutes |-> m, seconds |-> s]

\* state = binary_clock_state_from_time(&test_time)
StateFromTime ==
    /\ state = NULL
    /\ time_string = NULL
    /\ \E h \in HoursArgs, m \in MinutesArgs, s \in SecondsArgs, t \in TimeResults :
          /\ time_comp' = Ptr(TimeComponents(h, m, s))
          /\ state' = Ptr(binary_clock_state_from_time(time_comp', t))
    /\ UNCHANGED <<convVars, now, callVars,
                   regVars, time_string, extVars>>

\* state = binary_clock_state_from_time(NULL)
StateFromTimeNull ==
    /\ state = NULL
    /\ time_string = NULL
    /\ time_comp' = NULL
    /\ state' = Ptr(binary_clock_state_from_time(NULL, 0))
    /\ UNCHANGED <<convVars, now, callVars,
                   regVars, time_string, extVars>>

-----------------------------------------------------------------------------
(* binary_clock_get_current_time and binary_clock_get_current_state, step   *)
(* by step, for callers that run concurrently.  A step is a read of the     *)
(* clock, a call of localtime(), a read of one field of the struct tm it    *)
(* returned, or the rest of the function up to its next such step.          *)

Callers == {"A", "B"}

\* the struct tm localtime() computes for a time_t, taking local time to be UTC
BrokenDownTime(t) ==
    [tm_hour |-> (t \div 3600) % 24, tm_min |-> (t \div 60) % 60, tm_sec |-> t % 60]

\* time_components_t result = {0}
ZeroTime == TimeComponents(0, 0, 0)

\* the arguments the callers of state_from_time pass
SampleTimes ==
    {TimeComponents(14, 30, 45), TimeComponents(0, 0, 0), TimeComponents(23, 59, 59),
     TimeComponents(25, 30, 45), TimeComponents(14, 60, 45), TimeComponents(14, 30, 60)}

\* the state get_current_state returns when its own time() check fails
FailureStateStamped == [ZeroState EXCEPT !.timestamp = -1]
FailureState == ZeroState

\* binary_clock_state_t st = binary_clock_get_current_state(), entered
CallGetCurrentState(c) ==
    /\ pc[c] = "idle"
    /\ pc' = [pc EXCEPT ![c] = "gct_time"]
    /\ UNCHANGED <<convVars, timeVars, now, tmbuf, current_time, result, ret, failed, own,
                   regVars, time_string, extVars>>

\* time_t current_time = time(NULL); if (current_time == (time_t)-1) return result;
GetTime(c) ==
    /\ pc[c] = "gct_time"
    /\ \E t \in TimeResults :
          /\ current_time' = [current_time EXCEPT ![c] = t]
          /\ IF t = -1
             THEN /\ pc' = [pc EXCEPT ![c] = "gcs_check"]
                  /\ failed' = [failed EXCEPT ![c] = TRUE]
             ELSE /\ pc' = [pc EXCEPT ![c] = "gct_localtime"]
                  /\ UNCHANGED failed
    /\ UNCHANGED <<convVars, timeVars, now, tmbuf, result, ret, own,
                   regVars, time_string, extVars>>

\* local_time = localtime(&current_time), which fills the static buffer
LocalTime(c) ==
    /\ pc[c] = "gct_localtime"
    /\ tmbuf' = BrokenDownTime(current_time[c])
    /\ own' = [own EXCEPT ![c] = Ptr(BrokenDownTime(current_time[c]))]
    /\ pc' = [pc EXCEPT ![c] = "gct_hours"]
    /\ UNCHANGED <<convVars, timeVars, now, current_time, result, ret, failed,
                   regVars, time_string, extVars>>

\* local_time = localtime(&current_time); if (local_time == NULL) return result;
LocalTimeNull(c) ==
    /\ pc[c] = "gct_localtime"
    /\ failed' = [failed EXCEPT ![c] = TRUE]
    /\ pc' = [pc EXCEPT ![c] = "gcs_check"]
    /\ UNCHANGED <<convVars, timeVars, now, tmbuf, current_time, result, ret, own,
                   regVars, time_string, extVars>>

\* result.hours = (uint8_t)local_time->tm_hour
ReadHours(c) ==
    /\ pc[c] = "gct_hours"
    /\ result' = [result EXCEPT ![c].hours = Uint8(tmbuf.tm_hour)]
    /\ pc' = [pc EXCEPT ![c] = "gct_minutes"]
    /\ UNCHANGED <<convVars, timeVars, now, tmbuf, current_time, ret, failed, own,
                   regVars, time_string, extVars>>

\* result.minutes = (uint8_t)local_time->tm_min
ReadMinutes(c) ==
    /\ pc[c] = "gct_minutes"
    /\ result' = [result EXCEPT ![c].minutes = Uint8(tmbuf.tm_min)]
    /\ pc' = [pc EXCEPT ![c] = "gct_seconds"]
    /\ UNCHANGED <<convVars, timeVars, now, tmbuf, current_time, ret, failed, own,
                   regVars, time_string, extVars>>

\* result.seconds = (uint8_t)local_time->tm_sec; return result;
ReadSeconds(c) ==
    /\ pc[c] = "gct_seconds"
    /\ result' = [result EXCEPT ![c].seconds = Uint8(tmbuf.tm_sec)]
    /\ pc' = [pc EXCEPT ![c] = "gcs_check"]
    /\ UNCHANGED <<convVars, timeVars, now, tmbuf, current_time, ret, failed, own,
                   regVars, time_string, extVars>>

\* if (current_time.hours == 0 && current_time.minutes == 0 && current_time.seconds == 0)
CheckZero(c) ==
    /\ pc[c] = "gcs_check"
    /\ pc' = [pc EXCEPT ![c] = IF result[c] = ZeroTime THEN "gcs_test_time"
                                ELSE "gcs_from_time"]
    /\ UNCHANGED <<convVars, timeVars, now, tmbuf, current_time, result, ret, failed, own,
                   regVars, time_string, extVars>>

\* time_t test_time = time(NULL); if (test_time == (time_t)-1) return result;
TestTime(c) ==
    /\ pc[c] = "gcs_test_time"
    /\ \E t \in TimeResults :
          IF t = -1
          THEN /\ ret' = [ret EXCEPT ![c] = Ptr(FailureState)]
               /\ failed' = [failed EXCEPT ![c] = TRUE]
               /\ pc' = [pc EXCEPT ![c] = "gcs_done"]
          ELSE /\ pc' = [pc EXCEPT ![c] = "gcs_from_time"]
               /\ UNCHANGED <<ret, failed>>
    /\ UNCHANGED <<convVars, timeVars, now, tmbuf, current_time, result, own,
                   regVars, time_string, extVars>>

\* return binary_clock_state_from_time(&current_time);
FromCurrentTime(c) ==
    /\ pc[c] = "gcs_from_time"
    /\ \E t \in TimeResults :
          /\ ret' = [ret EXCEPT ![c] = Ptr(binary_clock_state_from_time(Ptr(result[c]), t))]
          /\ failed' = [failed EXCEPT ![c] = failed[c] \/ t = -1]
    /\ pc' = [pc EXCEPT ![c] = "gcs_done"]
    /\ UNCHANGED <<convVars, timeVars, now, tmbuf, current_time, result, own,
                   regVars, time_string, extVars>>

\* state = binary_clock_state_from_time(&test_time), by a caller of its own
CallStateFromTime(c) ==
    /\ pc[c] = "idle"
    /\ \E p \in {NULL} \cup {Ptr(tc) : tc \in SampleTimes}, t \in TimeResults :
          ret' = [ret EXCEPT ![c] = Ptr(binary_clock_state_from_time(p, t))]
    /\ pc' = [pc EXCEPT ![c] = "sft_done"]
    /\ UNCHANGED <<convVars, timeVars, now, tmbuf, current_time, result, failed, own,
                   regVars, time_string, extVars>>

\* the caller drops the returned state; its next call starts with fresh locals
Return(c) ==
    /\ pc[c] \in {"gcs_done", "sft_done"}
    /\ pc' = [pc EXCEPT ![c] = "idle"]
    /\ current_time' = [current_time EXCEPT ![c] = 0]
    /\ result' = [result EXCEPT ![c] = ZeroTime]
    /\ ret' = [ret EXCEPT ![c] = NULL]
    /\ failed' = [failed EXCEPT ![c] = FALSE]
    /\ own' = [own EXCEPT ![c] = NULL]
    /\ UNCHANGED <<convVars, timeVars, now, tmbuf,
                   regVars, time_string, extVars>>

\* the system clock advances by a second
Tick ==
    /\ \E s \in StartTimes : s <= now /\ now < s + MaxTicks
    /\ now' = now + 1
    /\ UNCHANGED <<convVars, timeVars, callVars,
                   regVars, time_string, extVars>>

-----------------------------------------------------------------------------
(* Display registry (binary_clock_display.c).  display_registry[i] of the *)
(* source is display_registry[i + 1] here.  A renderer is a function      *)
(* pointer: NULL, or a pointer to the named display function.             *)

MAX_REGISTERED_DISPLAYS == 16

\* static int next_registration_id: the range of int
INT_MAX == 2147483647
INT_MIN == -INT_MAX - 1

\* next_registration_id++ at INT_MAX is a signed overflow, which is undefined:
\* the build either wraps the counter around or traps
OverflowOutcomes == {"wrap", "trap"}

BINARY_CLOCK_SUCCESS == 0
BINARY_CLOCK_ERROR_INVALID_TIME == 1

\* a slot of the zero-initialised static array
EmptyEntry == [display_fn |-> NULL, context |-> NULL, active |-> FALSE, id |-> 0]

EmptyRegistry == [i \in 1..MAX_REGISTERED_DISPLAYS |-> EmptyEntry]

\* if (display_fn == NULL) return -1;
RendererUnchecked(fn) == FALSE
RendererInvalid(fn) == fn = NULL

\* for (int i = 0; i < MAX_REGISTERED_DISPLAYS; i++)
RegisterScanLimitShort == MAX_REGISTERED_DISPLAYS - 1
RegisterScanLimit == MAX_REGISTERED_DISPLAYS

\* the index of the first slot that is not active, -1 when the loop runs out
RECURSIVE FirstInactive(_, _)
FirstInactive(reg, i) ==
    IF i >= RegisterScanLimit THEN -1
    ELSE IF ~reg[i + 1].active THEN i
    ELSE FirstInactive(reg, i + 1)

\* return next_registration_id++; the counter afterwards (the value returned
\* is that of the counter before)
CounterAfterRegisterStuck(n, ov) == n
CounterAfterRegister(n, ov) ==
    IF n < INT_MAX THEN n + 1
    ELSE IF ov = "wrap" THEN INT_MIN
    ELSE n

\* ov is what the build makes of an overflow of the counter; trapped tells
\* that the call did not return
binary_clock_display_register(reg, next, fn, ctx, ov) ==
    IF RendererInvalid(fn)
    THEN [registry |-> reg, next_id |-> next,
          ret |-> -1, slot |-> -1, trapped |-> FALSE]
    ELSE LET i == FirstInactive(reg, 0) IN
         IF i = -1
         THEN [registry |-> reg, next_id |-> next,
               ret |-> -1, slot |-> -1, trapped |-> FALSE]
         ELSE [registry |-> [reg EXCEPT ![i + 1] =
                               [display_fn |-> fn, context |-> ctx,
                                active |-> TRUE, id |-> next]],
               next_id |-> CounterAfterRegister(next, ov),
               ret |-> next, slot |-> i,
               trapped |-> next = INT_MAX /\ ov = "trap"]

\* if (display_registry[i].active && display_registry[i].id == registration_id)
UnregisterMatchById(e, id) == e.id = id
UnregisterMatch(e, id) == e.active /\ e.id = id

RECURSIVE FirstMatch(_, _, _)
FirstMatch(reg, i, id) ==
    IF i >= MAX_REGISTERED_DISPLAYS THEN -1
    ELSE IF UnregisterMatch(reg[i + 1], id) THEN i
    ELSE FirstMatch(reg, i + 1, id)

\* the four assignments that release a slot
ClearedEntryStillActive(e) == [e EXCEPT !.id = -1]
ClearedEntry(e) ==
    [display_fn |-> NULL, context |-> NULL, active |-> FALSE, id |-> -1]

binary_clock_display_unregister(reg, next, id) ==
    IF id < 0
    THEN [registry |-> reg, next_id |-> next,
          ret |-> BINARY_CLOCK_ERROR_INVALID_TIME]
    ELSE LET i == FirstMatch(reg, 0, id) IN
         IF i = -1
         THEN [registry |-> reg, next_id |-> next,
               ret |-> BINARY_CLOCK_ERROR_INVALID_TIME]
         ELSE [registry |-> [reg EXCEPT ![i + 1] = ClearedEntry(reg[i + 1])],
               next_id |-> next,
               ret |-> BINARY_CLOCK_SUCCESS]

\* if (state == NULL) return;
StateUnchecked(p) == FALSE
StateAbsent(p) == p = NULL

\* display_registry[i].display_fn(state, display_registry[i].context);
InvocationWithoutContext(i, e, p) ==
    [slot |-> i, display_fn |-> e.display_fn, context |-> NULL, state |-> p]
Invocation(i, e, p) ==
    [slot |-> i, display_fn |-> e.display_fn, context |-> e.context, state |-> p]

\* the invocations of the dispatch loop from slot i on, in the order made
RECURSIVE DispatchLoopDescending(_, _, _)
DispatchLoopDescending(reg, i, p) ==
    IF i >= MAX_REGISTERED_DISPLAYS THEN <<>>
    ELSE IF reg[i + 1].active /\ reg[i + 1].display_fn # NULL
    THEN DispatchLoopDescending(reg, i + 1, p) \o <<Invocation(i, reg[i + 1], p)>>
    ELSE DispatchLoopDescending(reg, i + 1, p)

RECURSIVE DispatchLoop(_, _, _)
DispatchLoop(reg, i, p) ==
    IF i >= MAX_REGISTERED_DISPLAYS THEN <<>>
    ELSE IF reg[i + 1].active /\ reg[i + 1].display_fn # NULL
    THEN <<Invocation(i, reg[i + 1], p)>> \o DispatchLoop(reg, i + 1, p)
    ELSE DispatchLoop(reg, i + 1, p)

binary_clock_display_update_all_with_state(reg, p) ==
    IF StateAbsent(p) THEN <<>> ELSE DispatchLoop(reg, 0, p)

\* get_current_time run by one thread: t is what time() returned, lt what
\* localtime() returned
get_current_time(t, lt) ==
    IF t = -1 THEN ZeroTime
    ELSE IF lt = NULL THEN ZeroTime
    ELSE TimeComponents(Uint8(Deref(lt).tm_hour), Uint8(Deref(lt).tm_min),
                        Uint8(Deref(lt).tm_sec))

\* binary_clock_get_current_state run by one thread: t1, t2 and t3 are what
\* its calls of time() returned (t2 is read only when the time is all zero)
binary_clock_get_current_state(t1, lt, t2, t3) ==
    LET ct == get_current_time(t1, lt) IN
    IF ct.hours = 0 /\ ct.minutes = 0 /\ ct.seconds = 0 /\ t2 = -1
    THEN FailureState
    ELSE binary_clock_state_from_time(Ptr(ct), t3)

\* binary_clock_display_update_all_with_state(&state);
SnapshotDropped(st) == NULL
SnapshotPointer(st) == Ptr(st)

binary_clock_display_update_all(reg, st) ==
    binary_clock_display_update_all_with_state(reg, SnapshotPointer(st))

-----------------------------------------------------------------------------
(* The display calls of one thread *)

\* the renderer that callers register any number of times
DefaultDisplay == [display_fn |-> Ptr("console_emoji"), context |-> NULL]
\* a second renderer, registered with a context
OtherDisplay == [display_fn |-> Ptr("json"), context |-> Ptr("file")]
\* a registration without a renderer
NullDisplay == [display_fn |-> NULL, context |-> Ptr("file")]

DisplayArgs == {DefaultDisplay, OtherDisplay, NullDisplay}

\* the states handed to binary_clock_display_update_all_with_state
DispatchStates ==
    {binary_clock_state_from_time(Ptr(TimeComponents(14, 30, 45)), now)}

\* the record of a display call: its arguments, what it returned, the
\* renderer invocations it made, the registry it was entered with, and
\* whether its id had been unregistered with success before (stale)
NoCall == [op |-> "none", display_fn |-> NULL, context |-> NULL, id |-> -1,
           state |-> NULL, ret |-> 0, calls |-> <<>>,
           registry_before |-> EmptyRegistry, next_id_before |-> 0,
           stale |-> FALSE]

Entered(op) == [NoCall EXCEPT !.op = op,
                              !.registry_before = display_registry,
                              !.next_id_before = next_registration_id]

\* the ids handed to unregister: a negative one, every id that a register
\* call returned, and the value of the counter, which no call returned yet
UnregisterArgs ==
    {-1, next_registration_id} \cup {issued[k].id : k \in 1..Len(issued)}

\* what one thread's binary_clock_get_current_state can return now
CurrentStates ==
    {binary_clock_get_current_state(t1, lt, t2, t3) :
        t1 \in TimeResults, t2 \in TimeResults, t3 \in TimeResults,
        lt \in {NULL, Ptr(BrokenDownTime(now))}}

\* id = binary_clock_display_register(display_fn, context);
\* a call that traps writes its slot and ends the program without returning
Register ==
    /\ last.op # "trap"
    /\ \E d \in DisplayArgs, ov \in OverflowOutcomes :
          /\ d = OtherDisplay => next_registration_id \in 0..(MaxOtherIds - 1)
          /\ LET r == binary_clock_display_register(display_registry,
                          next_registration_id, d.display_fn, d.context, ov) IN
                /\ display_registry' = r.registry
                /\ next_registration_id' = r.next_id
                /\ last' = [Entered(IF r.trapped THEN "trap" ELSE "register")
                               EXCEPT !.display_fn = d.display_fn,
                                      !.context = d.context,
                                      !.ret = IF r.trapped THEN -1 ELSE r.ret]
                /\ issued' = IF r.ret # -1 /\ ~r.trapped
                             THEN Append(issued, [id |-> r.ret,
                                                  slot |-> r.slot,
                                                  display_fn |-> d.display_fn,
                                                  context |-> d.context])
                             ELSE issued
                /\ holder' = IF r.ret # -1 /\ ~r.trapped
                             THEN [holder EXCEPT ![r.slot + 1] = r.ret]
                             ELSE holder
    /\ UNCHANGED <<unregistered, convVars, timeVars, now, callVars, time_string, extVars>>

\* err = binary_clock_display_unregister(registration_id);
Unregister ==
    /\ last.op # "trap"
    /\ \E id \in UnregisterArgs :
          LET r == binary_clock_display_unregister(display_registry,
                        next_registration_id, id) IN
             /\ r.ret = BINARY_CLOCK_SUCCESS =>
                   Cardinality(unregistered) < MaxUnregisters
             /\ display_registry' = r.registry
             /\ next_registration_id' = r.next_id
             /\ last' = [Entered("unregister") EXCEPT !.id = id, !.ret = r.ret,
                                                      !.stale = id \in unregistered]
             /\ unregistered' = IF r.ret = BINARY_CLOCK_SUCCESS
                                THEN unregistered \cup {id}
                                ELSE unregistered
    /\ UNCHANGED <<issued, holder, convVars, timeVars, now, callVars, time_string, extVars>>

\* binary_clock_display_update_all_with_state(state);
UpdateAllWithState ==
    /\ last.op # "trap"
    /\ \E p \in {NULL} \cup {Ptr(s) : s \in DispatchStates} :
          last' = [Entered("update_all_with_state") EXCEPT
                      !.state = p,
                      !.calls = binary_clock_display_update_all_with_state(
                                    display_registry, p)]
    /\ UNCHANGED <<display_registry, next_registration_id, issued,
                   unregistered, holder,
                   convVars, timeVars, now, callVars, time_string, extVars>>

\* binary_clock_display_update_all();
UpdateAll ==
    /\ last.op # "trap"
    /\ \E st \in CurrentStates :
          last' = [Entered("update_all") EXCEPT
                      !.state = Ptr(st),
                      !.calls = binary_clock_display_update_all(
                                    display_registry, st)]
    /\ UNCHANGED <<display_registry, next_registration_id, issued,
                   unregistered, holder,
                   convVars, timeVars, now, callVars, time_string, extVars>>

-----------------------------------------------------------------------------
(* The readable time (binary_clock_display.c).  A C string is the sequence *)
(* of its characters, without the terminating NUL.                         *)

DecimalDigits == <<"0", "1", "2", "3", "4", "5", "6", "7", "8", "9">>

\* printf("%d", n) for n >= 0
RECURSIVE DecimalString(_)
DecimalString(n) ==
    IF n < 10 THEN <<DecimalDigits[n + 1]>>
    ELSE DecimalString(n \div 10) \o <<DecimalDigits[(n % 10) + 1]>>

\* printf("%02d", n) for n >= 0
Format02dUnpadded(n) == DecimalString(n)
Format02d(n) ==
    IF Len(DecimalString(n)) < 2 THEN <<"0">> \o DecimalString(n)
    ELSE DecimalString(n)

\* printf("%02d:%02d:%02d", hours, minutes, seconds)
FormatTime(hours, minutes, seconds) ==
    Format02d(hours) \o <<":">> \o Format02d(minutes) \o <<":">> \o Format02d(seconds)

\* int hours = state->hours_tens.decimal_value * 10 + state->hours_units.decimal_value;
ReadableHours(st) == st.hours_tens.decimal_value * 10 + st.hours_units.decimal_value
ReadableMinutes(st) == st.minutes_tens.decimal_value * 10 + st.minutes_units.decimal_value
ReadableSeconds(st) == st.seconds_tens.decimal_value * 10 + st.seconds_units.decimal_value

\* snprintf(buffer, buffer_size, ...): at most buffer_size - 1 characters
Snprintf(str, buffer_size) ==
    IF Len(str) < buffer_size THEN str ELSE SubSeq(str, 1, buffer_size - 1)

\* "HH:MM:SS\0"
TIME_STRING_SIZE == 9

\* what the function returned and what it left in the buffer, which held
\* the string buffer before
binary_clock_display_get_time_string(p, buffer, buffer_size) ==
    IF p = NULL \/ buffer = NULL \/ buffer_size < TIME_STRING_SIZE
    THEN [call |-> "get_time_string", ok |-> FALSE,
          text |-> IF buffer = NULL THEN <<>> ELSE Deref(buffer)]
    ELSE [call |-> "get_time_string", ok |-> TRUE,
          text |-> Snprintf(FormatTime(ReadableHours(Deref(p)),
                                       ReadableMinutes(Deref(p)),
                                       ReadableSeconds(Deref(p))),
                            buffer_size)]

\* binary_clock_display_json: the value of the "time" field of the object
\* it prints; nothing is printed for a NULL state
binary_clock_display_json(p) ==
    IF p = NULL
    THEN [call |-> "json", ok |-> FALSE, text |-> <<>>]
    ELSE [call |-> "json", ok |-> TRUE,
          text |-> FormatTime(ReadableHours(Deref(p)),
                              ReadableMinutes(Deref(p)),
                              ReadableSeconds(Deref(p)))]

\* the buffer sizes tried, and the buffer before the call
BufferSizes == {TIME_STRING_SIZE - 1, TIME_STRING_SIZE}
EmptyBuffer == Ptr(<<>>)

\* ok = binary_clock_display_get_time_string(&state, buffer, buffer_size)
GetTimeString ==
    /\ state # NULL
    /\ time_string = NULL
    /\ \E size \in BufferSizes :
          time_string' = Ptr(binary_clock_display_get_time_string(
                                 state, EmptyBuffer, size))
    /\ UNCHANGED <<convVars, timeVars, now, callVars, regVars, extVars>>

\* binary_clock_display_get_time_string without a state or without a buffer
GetTimeStringNull ==
    /\ time_string = NULL
    /\ \E p \in {NULL, state}, buffer \in {NULL, EmptyBuffer} :
          /\ p = NULL \/ buffer = NULL
          /\ time_string' = Ptr(binary_clock_display_get_time_string(
                                    p, buffer, TIME_STRING_SIZE))
    /\ UNCHANGED <<convVars, timeVars, now, callVars, regVars, extVars>>

\* binary_clock_display_json(&state, NULL)
DisplayJson ==
    /\ time_string = NULL
    /\ time_string' = Ptr(binary_clock_display_json(state))
    /\ UNCHANGED <<convVars, timeVars, now, callVars, regVars, extVars>>

-----------------------------------------------------------------------------
(* The command line program (main.c).  argv[i] is the pair of the option  *)
(* it starts with and the text after it: --display=json is                *)
(* <<"--display=", "json">>.  argv[0], the program name, is left out, so  *)
(* argv[i] of the source is argv[i] here.                                 *)

\* display_mode_t and operation_mode_t
DisplayModes == {"emoji", "binary", "json", "raw"}
DefaultConfig == [display_mode |-> "emoji", operation_mode |-> "single"]

\* exit is the code parse_arguments exits the process with, or -1 when it
\* returns the config
RECURSIVE parse_arguments(_, _, _)
parse_arguments(argv, i, config) ==
    IF i > Len(argv) THEN [exit |-> -1, config |-> config]
    ELSE IF argv[i] = <<"--help", "">> \/ argv[i] = <<"-h", "">>
         THEN [exit |-> 0, config |-> config]
    ELSE IF argv[i] = <<"--loop", "">>
         THEN parse_arguments(argv, i + 1,
                              [config EXCEPT !.operation_mode = "loop"])
    ELSE IF argv[i][1] = "--display="
         THEN IF argv[i][2] \in DisplayModes
              THEN parse_arguments(argv, i + 1,
                                   [config EXCEPT !.display_mode = argv[i][2]])
              ELSE [exit |-> 1, config |-> config]
    ELSE [exit |-> 1, config |-> config]

get_display_function(mode) ==
    CASE mode = "emoji" -> Ptr("console_emoji")
      [] mode = "binary" -> Ptr("console_ascii")
      [] mode = "json" -> Ptr("json")
      [] mode = "raw" -> Ptr("raw_api")
      [] OTHER -> Ptr("console_emoji")

\* the arguments the program is started with
Args == {<<"--help", "">>, <<"--loop", "">>, <<"--display=", "json">>,
         <<"--display=", "raw">>, <<"--display=", "bogus">>, <<"--bogus", "">>}
ArgVectors == UNION {[1..n -> Args] : n \in 0..MaxArgs}

\* the program before main() runs; exit_code -1: the process has not exited
Started(argv) ==
    [pc |-> "start", argv |-> argv, config |-> DefaultConfig,
     exit_code |-> -1, display_id |-> -1, iterations |-> 0,
     output |-> <<>>, time_error |-> FALSE]

\* display_fn(&state, NULL); called by main itself, not through a slot
DirectCall(fn, st) ==
    [slot |-> -1, display_fn |-> fn, context |-> NULL, state |-> Ptr(st)]

\* main() up to its return in single mode, or up to its while (1)
Main ==
    /\ cli.pc = "start"
    /\ LET parsed == parse_arguments(cli.argv, 1, DefaultConfig)
           display_fn == get_display_function(parsed.config.display_mode) IN
          IF parsed.exit # -1
          THEN /\ cli' = [cli EXCEPT !.pc = "exited",
                                     !.config = parsed.config,
                                     !.exit_code = parsed.exit]
               /\ UNCHANGED regVars
          ELSE IF parsed.config.operation_mode = "single"
          THEN /\ \E st \in CurrentStates :
                     cli' = IF st.timestamp = 0
                            THEN [cli EXCEPT !.pc = "exited",
                                             !.config = parsed.config,
                                             !.exit_code = 1,
                                             !.time_error = TRUE]
                            ELSE [cli EXCEPT !.pc = "exited",
                                             !.config = parsed.config,
                                             !.exit_code = 0,
                                             !.output = <<DirectCall(display_fn, st)>>]
               /\ UNCHANGED regVars
          ELSE \E ov \in OverflowOutcomes :
                  LET r == binary_clock_display_register(display_registry,
                                next_registration_id, display_fn, NULL, ov) IN
                     /\ display_registry' = r.registry
                     /\ next_registration_id' = r.next_id
                     /\ last' = [Entered("register") EXCEPT
                                    !.display_fn = display_fn, !.ret = r.ret]
                     /\ issued' = IF r.ret # -1
                                  THEN Append(issued, [id |-> r.ret,
                                                       slot |-> r.slot,
                                                       display_fn |-> display_fn,
                                                       context |-> NULL])
                                  ELSE issued
                     /\ holder' = IF r.ret # -1
                                  THEN [holder EXCEPT ![r.slot + 1] = r.ret]
                                  ELSE holder
                     /\ cli' = IF r.ret = -1
                               THEN [cli EXCEPT !.pc = "exited",
                                                !.config = parsed.config,
                                                !.exit_code = 1]
                               ELSE [cli EXCEPT !.pc = "loop",
                                                !.config = parsed.config,
                                                !.display_id = r.ret]
                     /\ UNCHANGED unregistered
    /\ UNCHANGED <<convVars, timeVars, now, callVars, time_string,
                   legacy_buffer, rthread, dispatch, bits_read>>

\* one turn of while (1): binary_clock_display_update_all(); SLEEP_FUNC(1);
MainLoop ==
    /\ cli.pc = "loop"
    /\ cli.iterations < MaxIterations
    /\ \E st \in CurrentStates :
          /\ cli' = [cli EXCEPT
                        !.iterations = @ + 1,
                        !.output = @ \o binary_clock_display_update_all(
                                            display_registry, st),
                        !.time_error = @ \/ st.timestamp = 0]
          /\ last' = [Entered("update_all") EXCEPT
                         !.state = Ptr(st),
                         !.calls = binary_clock_display_update_all(
                                       display_registry, st)]
    /\ UNCHANGED <<display_registry, next_registration_id, issued,
                   unregistered, holder,
                   convVars, timeVars, now, callVars, time_string,
                   legacy_buffer, rthread, dispatch, bits_read>>

\* SIGINT in loop mode: signal_handler calls exit(0)
Sigint ==
    /\ cli.pc = "loop"
    /\ cli' = [cli EXCEPT !.pc = "exited", !.exit_code = 0]
    /\ UNCHANGED <<convVars, timeVars, now, callVars, regVars, time_string,
                   legacy_buffer, rthread, dispatch, bits_read>>

-----------------------------------------------------------------------------
(* The legacy library (binary_clock_lib.c) and the buffer its tests hand  *)
(* to to_binary.  buffer[j] of the source is buffer[j + 1] here; the NUL  *)
(* character is written "NUL".                                            *)

\* char buffer[10]; memset(buffer, 'X', sizeof(buffer)); buffer[9] = '\0';
LEGACY_BUFFER_SIZE == 10
FilledBuffer ==
    [j \in 1..LEGACY_BUFFER_SIZE |->
        IF j = LEGACY_BUFFER_SIZE THEN "NUL" ELSE "X"]

\* buffer[bits - 1 - i] = (value & (1 << i)) ? '1' : '0';
LegacyIndexLsbFirst(bits, i) == i
LegacyIndex(bits, i) == bits - 1 - i

RECURSIVE LegacyLoop(_, _, _, _)
LegacyLoop(val, bits, i, buf) ==
    IF i >= 0
    THEN LegacyLoop(val, bits, i - 1,
                    [buf EXCEPT ![LegacyIndex(bits, i) + 1] =
                        IF BitAnd(val, ShiftLeft(1, i)) # 0 THEN "1" ELSE "0"])
    ELSE buf

\* the buffer after to_binary(value, bits, buffer) returned
to_binary(val, bits, buf) ==
    [LegacyLoop(val, bits, bits - 1, buf) EXCEPT ![bits + 1] = "NUL"]

\* the arguments of the calls: widths that fit the buffer, values that fill them
LegacyBits == 0..MaxLegacyBits
LegacyValues == 0..MaxLegacyValue

\* to_binary(value, bits, buffer);
ToBinaryLegacy ==
    /\ legacy_buffer.pc = "filled"
    /\ \E val \in LegacyValues, bits \in LegacyBits :
          legacy_buffer' = [pc |-> "written", value |-> val, bits |-> bits,
                            buffer |-> to_binary(val, bits, legacy_buffer.buffer)]
    /\ UNCHANGED <<convVars, timeVars, now, callVars, regVars, time_string,
                   cli, rthread, dispatch, bits_read>>

\* memset(buffer, 'X', sizeof(buffer)); buffer[9] = '\0';  before the next
\* call, whose arguments are not chosen yet
ResetBuffer ==
    /\ legacy_buffer.pc = "written"
    /\ legacy_buffer' = [pc |-> "filled", value |-> 0, bits |-> 0,
                         buffer |-> FilledBuffer]
    /\ UNCHANGED <<convVars, timeVars, now, callVars, regVars, time_string,
                   cli, rthread, dispatch, bits_read>>

-----------------------------------------------------------------------------
(* binary_clock_display_register step by step, for threads that call it  *)
(* concurrently.  The registry has no lock: a step is one read or one     *)
(* write of display_registry or of next_registration_id.                  *)

\* a renderer registered before the threads start
PriorDisplay == [display_fn |-> Ptr("raw_api"), context |-> NULL]

\* the registry after n register calls made one after the other
PriorRegistry(n) ==
    [i \in 1..MAX_REGISTERED_DISPLAYS |->
        IF i <= n
        THEN [display_fn |-> PriorDisplay.display_fn,
              context |-> PriorDisplay.context, active |-> TRUE, id |-> i - 1]
        ELSE EmptyEntry]

\* the numbers of registrations made before: none, one, all slots but one, all
PriorCounts == {0, 1, MAX_REGISTERED_DISPLAYS - 1, MAX_REGISTERED_DISPLAYS}

\* what each thread registers
ThreadDisplays(t) ==
    IF t = "A" THEN {DefaultDisplay, NullDisplay} ELSE {OtherDisplay}

\* a thread about to call binary_clock_display_register(display_fn, context);
\* i is its loop variable (-1: not in the loop), loaded the value of
\* next_registration_id it read for the return, ret what the call returned
Calling(d) ==
    [pc |-> "enter", display_fn |-> d.display_fn, context |-> d.context,
     i |-> -1, loaded |-> -1, ret |-> -1]

\* if (!display_registry[i].active)
SlotTakenNever(e) == FALSE
SlotTaken(e) == e.active

\* if (display_fn == NULL) return -1;
RegEnter(t) ==
    /\ rthread[t].pc = "enter"
    /\ rthread' = [rthread EXCEPT ![t] =
                      IF RendererInvalid(@.display_fn)
                      THEN [@ EXCEPT !.pc = "done", !.ret = -1]
                      ELSE [@ EXCEPT !.pc = "scan", !.i = 0]]
    /\ UNCHANGED <<convVars, timeVars, now, callVars, regVars, time_string,
                   cli, legacy_buffer, dispatch, bits_read>>

\* for (i = 0; i < MAX_REGISTERED_DISPLAYS; i++) if (!display_registry[i].active)
RegScan(t) ==
    /\ rthread[t].pc = "scan"
    /\ rthread' = [rthread EXCEPT ![t] =
                      IF @.i >= MAX_REGISTERED_DISPLAYS
                      THEN [@ EXCEPT !.pc = "done", !.ret = -1]
                      ELSE IF SlotTaken(display_registry[@.i + 1])
                      THEN [@ EXCEPT !.i = @ + 1]
                      ELSE [@ EXCEPT !.pc = "write_fn"]]
    /\ UNCHANGED <<convVars, timeVars, now, callVars, regVars, time_string,
                   cli, legacy_buffer, dispatch, bits_read>>

\* display_registry[i].display_fn = display_fn;
RegWriteFn(t) ==
    /\ rthread[t].pc = "write_fn"
    /\ display_registry' = [display_registry EXCEPT
                               ![rthread[t].i + 1].display_fn = rthread[t].display_fn]
    /\ rthread' = [rthread EXCEPT ![t].pc = "write_context"]
    /\ UNCHANGED <<next_registration_id, last, issued, unregistered, holder,
                   convVars, timeVars, now, callVars, time_string,
                   cli, legacy_buffer, dispatch, bits_read>>

\* display_registry[i].context = context;
RegWriteContext(t) ==
    /\ rthread[t].pc = "write_context"
    /\ display_registry' = [display_registry EXCEPT
                               ![rthread[t].i + 1].context = rthread[t].context]
    /\ rthread' = [rthread EXCEPT ![t].pc = "write_active"]
    /\ UNCHANGED <<next_registration_id, last, issued, unregistered, holder,
                   convVars, timeVars, now, callVars, time_string,
                   cli, legacy_buffer, dispatch, bits_read>>

\* display_registry[i].active = true;
RegWriteActive(t) ==
    /\ rthread[t].pc = "write_active"
    /\ display_registry' = [display_registry EXCEPT
                               ![rthread[t].i + 1].active = TRUE]
    /\ rthread' = [rthread EXCEPT ![t].pc = "write_id"]
    /\ UNCHANGED <<next_registration_id, last, issued, unregistered, holder,
                   convVars, timeVars, now, callVars, time_string,
                   cli, legacy_buffer, dispatch, bits_read>>

\* display_registry[i].id = next_registration_id;
RegWriteId(t) ==
    /\ rthread[t].pc = "write_id"
    /\ display_registry' = [display_registry EXCEPT
                               ![rthread[t].i + 1].id = next_registration_id]
    /\ rthread' = [rthread EXCEPT ![t].pc = "load"]
    /\ UNCHANGED <<next_registration_id, last, issued, unregistered, holder,
                   convVars, timeVars, now, callVars, time_string,
                   cli, legacy_buffer, dispatch, bits_read>>

\* return next_registration_id++;  the read of the counter
RegLoadCounter(t) ==
    /\ rthread[t].pc = "load"
    /\ rthread' = [rthread EXCEPT ![t].pc = "store",
                                  ![t].loaded = next_registration_id]
    /\ UNCHANGED <<convVars, timeVars, now, callVars, regVars, time_string,
                   cli, legacy_buffer, dispatch, bits_read>>

\* return next_registration_id++;  the write of the counter, and the return
RegStoreCounter(t) ==
    /\ rthread[t].pc = "store"
    /\ \E ov \in OverflowOutcomes :
          next_registration_id' = CounterAfterRegister(rthread[t].loaded, ov)
    /\ rthread' = [rthread EXCEPT ![t].pc = "done",
                                  ![t].ret = rthread[t].loaded]
    /\ UNCHANGED <<display_registry, last, issued, unregistered, holder,
                   convVars, timeVars, now, callVars, time_string,
                   cli, legacy_buffer, dispatch, bits_read>>

-----------------------------------------------------------------------------
(* binary_clock_display_update_all_with_state turn by turn, with renderers *)
(* that call binary_clock_display_register and _unregister while they run *)
(* (one thread: the renderer returns before the loop goes on).             *)

\* a renderer of the application, free to call the registry
CustomDisplay == [display_fn |-> Ptr("custom"), context |-> Ptr("app")]

\* the registry after n register calls of the application
CustomRegistry(n) ==
    [i \in 1..MAX_REGISTERED_DISPLAYS |->
        IF i <= n
        THEN [display_fn |-> CustomDisplay.display_fn,
              context |-> CustomDisplay.context, active |-> TRUE, id |-> i - 1]
        ELSE EmptyEntry]

\* the numbers of registrations made before the dispatch
CustomCounts == {2, 3}

\* no dispatch is running; used counts the registry calls renderers made
NotDispatching ==
    [pc |-> "idle", i |-> 0, state |-> NULL, calls |-> <<>>, removed |-> {},
     registry_at_entry |-> EmptyRegistry, used |-> 0]

\* the entry the loop tests and calls in turn i: display_registry[i], read
\* in that turn
DispatchedEntryAtEntry(at_entry, reg, i) == at_entry[i + 1]
DispatchedEntry(at_entry, reg, i) == reg[i + 1]

\* what a renderer does before it returns: nothing, a register call, or an
\* unregister call with the id of an active slot
RendererActs ==
    {[op |-> "return", id |-> -1], [op |-> "register", id |-> -1]}
       \cup {[op |-> "unregister", id |-> display_registry[k].id] :
                k \in {j \in 1..MAX_REGISTERED_DISPLAYS : display_registry[j].active}}

\* binary_clock_display_update_all_with_state(state); up to the loop
DispatchBegin ==
    /\ dispatch.pc \in {"idle", "done"}
    /\ \E s \in DispatchStates :
          dispatch' = [NotDispatching EXCEPT !.pc = "loop",
                                             !.state = Ptr(s),
                                             !.registry_at_entry = display_registry,
                                             !.used = dispatch.used]
    /\ UNCHANGED <<convVars, timeVars, now, callVars, regVars, time_string,
                   cli, legacy_buffer, rthread, bits_read>>

\* one turn of the loop: the test of slot i and, if it passes, the call of
\* its renderer, with what the renderer does to the registry
DispatchTurn ==
    /\ dispatch.pc = "loop"
    /\ dispatch.i < MAX_REGISTERED_DISPLAYS
    /\ LET e == DispatchedEntry(dispatch.registry_at_entry, display_registry,
                                dispatch.i)
           call == [slot |-> dispatch.i, id |-> e.id,
                    display_fn |-> e.display_fn, context |-> e.context,
                    state |-> dispatch.state,
                    active |-> display_registry[dispatch.i + 1].active] IN
          IF e.active /\ e.display_fn # NULL
          THEN \E act \in RendererActs, ov \in OverflowOutcomes :
                  LET reg == binary_clock_display_register(display_registry,
                                 next_registration_id, CustomDisplay.display_fn,
                                 CustomDisplay.context, ov)
                      unreg == binary_clock_display_unregister(display_registry,
                                   next_registration_id, act.id) IN
                     /\ act.op # "return" => dispatch.used < MaxReentrantCalls
                     /\ display_registry' =
                           CASE act.op = "register" -> reg.registry
                             [] act.op = "unregister" -> unreg.registry
                             [] OTHER -> display_registry
                     /\ next_registration_id' =
                           CASE act.op = "register" -> reg.next_id
                             [] act.op = "unregister" -> unreg.next_id
                             [] OTHER -> next_registration_id
                     /\ dispatch' =
                           [dispatch EXCEPT
                               !.i = @ + 1,
                               !.calls = Append(@, call),
                               !.used = IF act.op = "return" THEN @ ELSE @ + 1,
                               !.removed =
                                  IF act.op = "unregister"
                                        /\ unreg.ret = BINARY_CLOCK_SUCCESS
                                  THEN @ \cup {[id |-> act.id,
                                                by |-> dispatch.i,
                                                after |-> Len(dispatch.calls) + 1]}
                                  ELSE @]
          ELSE /\ dispatch' = [dispatch EXCEPT !.i = @ + 1]
               /\ UNCHANGED <<display_registry, next_registration_id>>
    /\ UNCHANGED <<last, issued, unregistered, holder,
                   convVars, timeVars, now, callVars, time_string,
                   cli, legacy_buffer, rthread, bits_read>>

\* the loop has run out: the call returns
DispatchEnd ==
    /\ dispatch.pc = "loop"
    /\ dispatch.i >= MAX_REGISTERED_DISPLAYS
    /\ dispatch' = [dispatch EXCEPT !.pc = "done"]
    /\ UNCHANGED <<convVars, timeVars, now, callVars, regVars, time_string,
                   cli, legacy_buffer, rthread, bits_read>>

-----------------------------------------------------------------------------
(* binary_clock_to_decimal on a binary_value_t the caller filled in by    *)
(* hand.  The loop runs to bit_count, whatever it is: a read of bits[i]   *)
(* with i >= 6 is a read of the bytes after the array, and a shift of the *)
(* int 1 by 32 or more positions is undefined.                            *)

\* bit_count of the hand-built values: in range, and beyond the array
HandBuiltBitCounts ==
    {1, BITS_CAPACITY, BITS_CAPACITY + 1, MaxHandBuiltBitCount}

HandBuiltValues ==
    {[bit_count |-> bc, bits |-> bits, decimal_value |-> 0] :
        bc \in HandBuiltBitCounts, bits \in [1..BITS_CAPACITY -> BOOLEAN]}

\* what the bytes after bits[5] read as: no build fixes it
BeyondOutcomes == BOOLEAN

\* 1 << n for n >= 32: the machine uses the low five bits of n, or yields 0
ShiftOutcomes == {"masked", "zero"}
INT_BITS == 32

\* binary->bits[i]
ReadBit(b, i, beyond) == IF i < BITS_CAPACITY THEN b.bits[i + 1] ELSE beyond

\* (1 << (binary->bit_count - 1 - i)), reduced to its low byte, which is
\* all that result |= ... keeps of it in a uint8_t
ShiftedOne(n, so) ==
    LET count == IF n < INT_BITS THEN n
                 ELSE IF so = "masked" THEN n % INT_BITS
                 ELSE INT_BITS IN
       IF count > 7 THEN 0 ELSE ShiftLeft(1, count)

\* the loop of binary_clock_to_decimal without a limit on bit_count; result
\* (acc) is a uint8_t
RECURSIVE ToDecimalLoopUnchecked(_, _, _, _, _)
ToDecimalLoopUnchecked(b, i, acc, beyond, so) ==
    IF i >= b.bit_count \/ acc \notin 0..UINT8_MAX THEN acc
    ELSE ToDecimalLoopUnchecked(b, i + 1,
            IF ReadBit(b, i, beyond)
            THEN Uint8(BitOr(acc, ShiftedOne(b.bit_count - 1 - i, so)))
            ELSE acc,
            beyond, so)

\* the indices i of the reads binary->bits[i] the call makes
IndicesRead(p) ==
    IF p = NULL \/ Deref(p).bit_count = 0 THEN {}
    ELSE 0..(Deref(p).bit_count - 1)

\* decimal = binary_clock_to_decimal(&hand_built)
ToDecimalHandBuilt ==
    /\ conv_pc = "built"
    /\ \E beyond \in BeyondOutcomes, so \in ShiftOutcomes :
          recovered' = IF binary = NULL \/ Deref(binary).bit_count = 0 THEN 0
                       ELSE ToDecimalLoopUnchecked(Deref(binary), 0, 0, beyond, so)
    /\ bits_read' = IndicesRead(binary)
    /\ conv_pc' = "recovered"
    /\ UNCHANGED <<value, bit_count, binary, timeVars, now, callVars,
                   regVars, time_string, cli, legacy_buffer, rthread, dispatch>>

-----------------------------------------------------------------------------
(* Specifications *)

\* the conversions applied to every argument pair
InitConv ==
    /\ value \in ValueArgs
    /\ bit_count \in BitCountArgs
    /\ binary = NULL
    /\ recovered = -1
    /\ conv_pc = "start"
    /\ time_comp = NULL
    /\ state = NULL
    /\ now = 0
    /\ tmbuf = [tm_hour |-> 0, tm_min |-> 0, tm_sec |-> 0]
    /\ pc = [c \in Callers |-> "off"]
    /\ current_time = [c \in Callers |-> 0]
    /\ result = [c \in Callers |-> ZeroTime]
    /\ ret = [c \in Callers |-> NULL]
    /\ failed = [c \in Callers |-> FALSE]
    /\ own = [c \in Callers |-> NULL]
    /\ display_registry = EmptyRegistry
    /\ next_registration_id = 0
    /\ last = NoCall
    /\ issued = <<>>
    /\ unregistered = {}
    /\ holder = [i \in 1..MAX_REGISTERED_DISPLAYS |-> -1]
    /\ time_string = NULL
    /\ cli = NULL
    /\ legacy_buffer = <<>>
    /\ rthread = [c \in Callers |-> NULL]
    /\ dispatch = NULL
    /\ bits_read = {}

NextConv == ToBinary \/ ToDecimal \/ ToDecimalNull

SpecConv == InitConv /\ [][NextConv]_vars

\* binary_clock_state_from_time applied to every argument
InitTime ==
    /\ value = 0
    /\ bit_count = 0
    /\ binary = NULL
    /\ recovered = -1
    /\ conv_pc = "off"
    /\ time_comp = NULL
    /\ state = NULL
    /\ now \in StartTimes
    /\ tmbuf = [tm_hour |-> 0, tm_min |-> 0, tm_sec |-> 0]
    /\ pc = [c \in Callers |-> "off"]
    /\ current_time = [c \in Callers |-> 0]
    /\ result = [c \in Callers |-> ZeroTime]
    /\ ret = [c \in Callers |-> NULL]
    /\ failed = [c \in Callers |-> FALSE]
    /\ own = [c \in Callers |-> NULL]
    /\ display_registry = EmptyRegistry
    /\ next_registration_id = 0
    /\ last = NoCall
    /\ issued = <<>>
    /\ unregistered = {}
    /\ holder = [i \in 1..MAX_REGISTERED_DISPLAYS |-> -1]
    /\ time_string = NULL
    /\ cli = NULL
    /\ legacy_buffer = <<>>
    /\ rthread = [c \in Callers |-> NULL]
    /\ dispatch = NULL
    /\ bits_read = {}

NextTime == StateFromTime \/ StateFromTimeNull

SpecTime == InitTime /\ [][NextTime]_vars

\* concurrent callers of get_current_state and state_from_time, clock running
InitClock ==
    /\ value = 0
    /\ bit_count = 0
    /\ binary = NULL
    /\ recovered = -1
    /\ conv_pc = "off"
    /\ time_comp = NULL
    /\ state = NULL
    /\ now \in StartTimes
    /\ tmbuf = [tm_hour |-> 0, tm_min |-> 0, tm_sec |-> 0]
    /\ pc = [c \in Callers |-> "idle"]
    /\ current_time = [c \in Callers |-> 0]
    /\ result = [c \in Callers |-> ZeroTime]
    /\ ret = [c \in Callers |-> NULL]
    /\ failed = [c \in Callers |-> FALSE]
    /\ own = [c \in Callers |-> NULL]
    /\ display_registry = EmptyRegistry
    /\ next_registration_id = 0
    /\ last = NoCall
    /\ issued = <<>>
    /\ unregistered = {}
    /\ holder = [i \in 1..MAX_REGISTERED_DISPLAYS |-> -1]
    /\ time_string = NULL
    /\ cli = NULL
    /\ legacy_buffer = <<>>
    /\ rthread = [c \in Callers |-> NULL]
    /\ dispatch = NULL
    /\ bits_read = {}

NextClock ==
    \/ Tick
    \/ \E c \in Callers :
          \/ CallGetCurrentState(c)
          \/ GetTime(c)
          \/ LocalTime(c)
          \/ LocalTimeNull(c)
          \/ ReadHours(c)
          \/ ReadMinutes(c)
          \/ ReadSeconds(c)
          \/ CheckZero(c)
          \/ TestTime(c)
          \/ FromCurrentTime(c)
          \/ CallStateFromTime(c)
          \/ Return(c)

SpecClock == InitClock /\ [][NextClock]_vars

\* one thread registering, unregistering and updating displays
InitRegistry ==
    /\ value = 0
    /\ bit_count = 0
    /\ binary = NULL
    /\ recovered = -1
    /\ conv_pc = "off"
    /\ time_comp = NULL
    /\ state = NULL
    /\ now = SecondsPerDay - 1
    /\ tmbuf = [tm_hour |-> 0, tm_min |-> 0, tm_sec |-> 0]
    /\ pc = [c \in Callers |-> "off"]
    /\ current_time = [c \in Callers |-> 0]
    /\ result = [c \in Callers |-> ZeroTime]
    /\ ret = [c \in Callers |-> NULL]
    /\ failed = [c \in Callers |-> FALSE]
    /\ own = [c \in Callers |-> NULL]
    /\ display_registry = EmptyRegistry
    /\ next_registration_id = 0
    /\ last = NoCall
    /\ issued = <<>>
    /\ unregistered = {}
    /\ holder = [i \in 1..MAX_REGISTERED_DISPLAYS |-> -1]
    /\ time_string = NULL
    /\ cli = NULL
    /\ legacy_buffer = <<>>
    /\ rthread = [c \in Callers |-> NULL]
    /\ dispatch = NULL
    /\ bits_read = {}

NextRegistry == Register \/ Unregister \/ UpdateAllWithState \/ UpdateAll

SpecRegistry == InitRegistry /\ [][NextRegistry]_vars

\* the same thread after it has registered and unregistered a display
\* INT_MAX - 1 times: slot 0 was released, the others were never used, and
\* the counter is two registrations short of its overflow.  The histories
\* start here.
InitWrap ==
    /\ value = 0
    /\ bit_count = 0
    /\ binary = NULL
    /\ recovered = -1
    /\ conv_pc = "off"
    /\ time_comp = NULL
    /\ state = NULL
    /\ now = SecondsPerDay - 1
    /\ tmbuf = [tm_hour |-> 0, tm_min |-> 0, tm_sec |-> 0]
    /\ pc = [c \in Callers |-> "off"]
    /\ current_time = [c \in Callers |-> 0]
    /\ result = [c \in Callers |-> ZeroTime]
    /\ ret = [c \in Callers |-> NULL]
    /\ failed = [c \in Callers |-> FALSE]
    /\ own = [c \in Callers |-> NULL]
    /\ display_registry = [EmptyRegistry EXCEPT ![1] = ClearedEntry(EmptyEntry)]
    /\ next_registration_id = INT_MAX - 1
    /\ last = [NoCall EXCEPT !.registry_before =
                                [EmptyRegistry EXCEPT ![1] = ClearedEntry(EmptyEntry)],
                            !.next_id_before = INT_MAX - 1]
    /\ issued = <<>>
    /\ unregistered = {}
    /\ holder = [i \in 1..MAX_REGISTERED_DISPLAYS |-> -1]
    /\ time_string = NULL
    /\ cli = NULL
    /\ legacy_buffer = <<>>
    /\ rthread = [c \in Callers |-> NULL]
    /\ dispatch = NULL
    /\ bits_read = {}

SpecWrap == InitWrap /\ [][NextRegistry]_vars

\* the readable time of the state of every argument of state_from_time
InitString ==
    /\ value = 0
    /\ bit_count = 0
    /\ binary = NULL
    /\ recovered = -1
    /\ conv_pc = "off"
    /\ time_comp = NULL
    /\ state = NULL
    /\ now = SecondsPerDay - 1
    /\ tmbuf = [tm_hour |-> 0, tm_min |-> 0, tm_sec |-> 0]
    /\ pc = [c \in Callers |-> "off"]
    /\ current_time = [c \in Callers |-> 0]
    /\ result = [c \in Callers |-> ZeroTime]
    /\ ret = [c \in Callers |-> NULL]
    /\ failed = [c \in Callers |-> FALSE]
    /\ own = [c \in Callers |-> NULL]
    /\ display_registry = EmptyRegistry
    /\ next_registration_id = 0
    /\ last = NoCall
    /\ issued = <<>>
    /\ unregistered = {}
    /\ holder = [i \in 1..MAX_REGISTERED_DISPLAYS |-> -1]
    /\ time_string = NULL
    /\ cli = NULL
    /\ legacy_buffer = <<>>
    /\ rthread = [c \in Callers |-> NULL]
    /\ dispatch = NULL
    /\ bits_read = {}

NextString ==
    \/ StateFromTime
    \/ StateFromTimeNull
    \/ GetTimeString
    \/ GetTimeStringNull
    \/ DisplayJson

SpecString == InitString /\ [][NextString]_vars

\* the command line program, started with every argument vector
InitCli ==
    /\ value = 0
    /\ bit_count = 0
    /\ binary = NULL
    /\ recovered = -1
    /\ conv_pc = "start"
    /\ time_comp = NULL
    /\ state = NULL
    /\ now \in StartTimes
    /\ tmbuf = [tm_hour |-> 0, tm_min |-> 0, tm_sec |-> 0]
    /\ pc = [c \in Callers |-> "off"]
    /\ current_time = [c \in Callers |-> 0]
    /\ result = [c \in Callers |-> ZeroTime]
    /\ ret = [c \in Callers |-> NULL]
    /\ failed = [c \in Callers |-> FALSE]
    /\ own = [c \in Callers |-> NULL]
    /\ display_registry = EmptyRegistry
    /\ next_registration_id = 0
    /\ last = NoCall
    /\ issued = <<>>
    /\ unregistered = {}
    /\ holder = [i \in 1..MAX_REGISTERED_DISPLAYS |-> -1]
    /\ time_string = NULL
    /\ cli \in {Started(argv) : argv \in ArgVectors}
    /\ legacy_buffer = <<>>
    /\ rthread = [c \in Callers |-> NULL]
    /\ dispatch = NULL
    /\ bits_read = {}

NextCli == Main \/ MainLoop \/ Sigint \/ Tick

SpecCli == InitCli /\ [][NextCli]_vars

\* the calls of the legacy to_binary on a filled buffer
InitLegacy ==
    /\ value = 0
    /\ bit_count = 0
    /\ binary = NULL
    /\ recovered = -1
    /\ conv_pc = "start"
    /\ time_comp = NULL
    /\ state = NULL
    /\ now = 0
    /\ tmbuf = [tm_hour |-> 0, tm_min |-> 0, tm_sec |-> 0]
    /\ pc = [c \in Callers |-> "off"]
    /\ current_time = [c \in Callers |-> 0]
    /\ result = [c \in Callers |-> ZeroTime]
    /\ ret = [c \in Callers |-> NULL]
    /\ failed = [c \in Callers |-> FALSE]
    /\ own = [c \in Callers |-> NULL]
    /\ display_registry = EmptyRegistry
    /\ next_registration_id = 0
    /\ last = NoCall
    /\ issued = <<>>
    /\ unregistered = {}
    /\ holder = [i \in 1..MAX_REGISTERED_DISPLAYS |-> -1]
    /\ time_string = NULL
    /\ cli = NULL
    /\ legacy_buffer = [pc |-> "filled", value |-> 0, bits |-> 0,
                        buffer |-> FilledBuffer]
    /\ rthread = [c \in Callers |-> NULL]
    /\ dispatch = NULL
    /\ bits_read = {}

NextLegacy == ToBinaryLegacy \/ ResetBuffer

SpecLegacy == InitLegacy /\ [][NextLegacy]_vars

\* two threads call binary_clock_display_register at the same time, after
\* some registrations were made
InitRace ==
    /\ value = 0
    /\ bit_count = 0
    /\ binary = NULL
    /\ recovered = -1
    /\ conv_pc = "start"
    /\ time_comp = NULL
    /\ state = NULL
    /\ now = 0
    /\ tmbuf = [tm_hour |-> 0, tm_min |-> 0, tm_sec |-> 0]
    /\ pc = [c \in Callers |-> "off"]
    /\ current_time = [c \in Callers |-> 0]
    /\ result = [c \in Callers |-> ZeroTime]
    /\ ret = [c \in Callers |-> NULL]
    /\ failed = [c \in Callers |-> FALSE]
    /\ own = [c \in Callers |-> NULL]
    /\ \E n \in PriorCounts :
          /\ display_registry = PriorRegistry(n)
          /\ next_registration_id = n
          /\ last = [NoCall EXCEPT !.registry_before = PriorRegistry(n),
                                   !.next_id_before = n]
          /\ holder = [i \in 1..MAX_REGISTERED_DISPLAYS |->
                          IF i <= n THEN i - 1 ELSE -1]
    /\ issued = <<>>
    /\ unregistered = {}
    /\ time_string = NULL
    /\ cli = NULL
    /\ legacy_buffer = <<>>
    /\ \E da \in ThreadDisplays("A"), db \in ThreadDisplays("B") :
          rthread = [c \in Callers |-> IF c = "A" THEN Calling(da) ELSE Calling(db)]
    /\ dispatch = NULL
    /\ bits_read = {}

NextRace ==
    \E t \in Callers :
       \/ RegEnter(t)
       \/ RegScan(t)
       \/ RegWriteFn(t)
       \/ RegWriteContext(t)
       \/ RegWriteActive(t)
       \/ RegWriteId(t)
       \/ RegLoadCounter(t)
       \/ RegStoreCounter(t)

SpecRace == InitRace /\ [][NextRace]_vars

\* dispatches to renderers that change the registry while they run
InitReentrant ==
    /\ value = 0
    /\ bit_count = 0
    /\ binary = NULL
    /\ recovered = -1
    /\ conv_pc = "start"
    /\ time_comp = NULL
    /\ state = NULL
    /\ now = SecondsPerDay - 1
    /\ tmbuf = [tm_hour |-> 0, tm_min |-> 0, tm_sec |-> 0]
    /\ pc = [c \in Callers |-> "off"]
    /\ current_time = [c \in Callers |-> 0]
    /\ result = [c \in Callers |-> ZeroTime]
    /\ ret = [c \in Callers |-> NULL]
    /\ failed = [c \in Callers |-> FALSE]
    /\ own = [c \in Callers |-> NULL]
    /\ \E n \in CustomCounts :
          /\ display_registry = CustomRegistry(n)
          /\ next_registration_id = n
          /\ last = [NoCall EXCEPT !.registry_before = CustomRegistry(n),
                                   !.next_id_before = n]
          /\ holder = [i \in 1..MAX_REGISTERED_DISPLAYS |->
                          IF i <= n THEN i - 1 ELSE -1]
    /\ issued = <<>>
    /\ unregistered = {}
    /\ time_string = NULL
    /\ cli = NULL
    /\ legacy_buffer = <<>>
    /\ rthread = [c \in Callers |-> NULL]
    /\ dispatch = NotDispatching
    /\ bits_read = {}

NextReentrant == DispatchBegin \/ DispatchTurn \/ DispatchEnd

SpecReentrant == InitReentrant /\ [][NextReentrant]_vars

\* binary_clock_to_decimal applied to every hand-built value
InitHandBuilt ==
    /\ value = 0
    /\ bit_count = 0
    /\ binary \in {Ptr(b) : b \in HandBuiltValues}
    /\ recovered = -1
    /\ conv_pc = "built"
    /\ time_comp = NULL
    /\ state = NULL
    /\ now = 0
    /\ tmbuf = [tm_hour |-> 0, tm_min |-> 0, tm_sec |-> 0]
    /\ pc = [c \in Callers |-> "off"]
    /\ current_time = [c \in Callers |-> 0]
    /\ result = [c \in Callers |-> ZeroTime]
    /\ ret = [c \in Callers |-> NULL]
    /\ failed = [c \in Callers |-> FALSE]
    /\ own = [c \in Callers |-> NULL]
    /\ display_registry = EmptyRegistry
    /\ next_registration_id = 0
    /\ last = NoCall
    /\ issued = <<>>
    /\ unregistered = {}
    /\ holder = [i \in 1..MAX_REGISTERED_DISPLAYS |-> -1]
    /\ time_string = NULL
    /\ cli = NULL
    /\ legacy_buffer = <<>>
    /\ rthread = [c \in Callers |-> NULL]
    /\ dispatch = NULL
    /\ bits_read = {}

NextHandBuilt == ToDecimalHandBuilt

SpecHandBuilt == InitHandBuilt /\ [][NextHandBuilt]_vars

-----------------------------------------------------------------------------
(* What the properties below read off a digit and a state *)

\* sum over i in [0, bit_count) of bits[i] * 2^(bit_count - 1 - i)
RECURSIVE WeightedSum(_, _)
WeightedSum(d, i) ==
    IF i >= d.bit_count THEN 0
    ELSE (IF d.bits[i + 1] THEN Pow2(d.bit_count - 1 - i) ELSE 0) + WeightedSum(d, i + 1)

DigitZeroed(d) ==
    /\ d.bit_count = 0
    /\ d.decimal_value = 0
    /\ \A i \in 1..6 : ~d.bits[i]

\* the digit shows v in w bits, most significant bit first
DigitShows(d, v, w) ==
    /\ d.bit_count = w
    /\ d.decimal_value = v
    /\ WeightedSum(d, 0) = v
    /\ \A i \in 1..6 : i > w => ~d.bits[i]

DigitNames ==
    {"hours_tens", "hours_units", "minutes_tens", "minutes_units",
     "seconds_tens", "seconds_units"}

AllDigitsZeroed(st) == \A f \in DigitNames : DigitZeroed(st[f])

AllDigitsValid(st) ==
    /\ st.hours_tens.bit_count = 3 /\ st.hours_tens.decimal_value \in 0..2
    /\ st.hours_units.bit_count = 4 /\ st.hours_units.decimal_value \in 0..9
    /\ st.minutes_tens.bit_count = 3 /\ st.minutes_tens.decimal_value \in 0..5
    /\ st.minutes_units.bit_count = 4 /\ st.minutes_units.decimal_value \in 0..9
    /\ st.seconds_tens.bit_count = 3 /\ st.seconds_tens.decimal_value \in 0..5
    /\ st.seconds_units.bit_count = 4 /\ st.seconds_units.decimal_value \in 0..9

ValidTime(tc) == tc.hours <= 23 /\ tc.minutes <= 59 /\ tc.seconds <= 59

\* the time of day the six digits of a state show
ShownTime(st) ==
    [tm_hour |-> st.hours_tens.decimal_value * 10 + st.hours_units.decimal_value,
     tm_min |-> st.minutes_tens.decimal_value * 10 + st.minutes_units.decimal_value,
     tm_sec |-> st.seconds_tens.decimal_value * 10 + st.seconds_units.decimal_value]

-----------------------------------------------------------------------------
(* Properties of the conversions, under SpecConv *)

\* C1: for every bit_count b in 1..6 and every value v in 0..2^b-1,
\* binary_clock_to_decimal(binary_clock_to_binary(v, b)) equals v.
C1_RoundTrip ==
    (conv_pc = "recovered" /\ binary # NULL /\ bit_count \in 1..6
        /\ value < Pow2(bit_count))
    => recovered = value

C1_Witness ==
    /\ conv_pc = "recovered" /\ binary # NULL
    /\ bit_count = 6 /\ value = 37 /\ recovered = 37

\* C2: for every b in 1..6 and every 8-bit value v >= 2^b, binary_clock_to_binary(v, b)
\* signals no error (bit_count == b) and its decimal_value is v mod 2^b.
C2_Truncation ==
    (binary # NULL /\ bit_count \in 1..6 /\ value >= Pow2(bit_count))
    => /\ Deref(binary).bit_count = bit_count
       /\ Deref(binary).decimal_value = value % Pow2(bit_count)

C2_Witness ==
    /\ binary # NULL /\ bit_count = 4 /\ value = 200
    /\ Deref(binary).bit_count = 4 /\ Deref(binary).decimal_value = 8

\* C3: for every value and every bit_count outside 1..6, binary_clock_to_binary returns
\* a digit with bit_count 0, all bits false and decimal_value 0.
C3_BitWidthValidation ==
    (binary # NULL /\ bit_count \notin 1..6) => DigitZeroed(Deref(binary))

C3_Witness ==
    /\ binary # NULL /\ bit_count = 7 /\ value = 5
    /\ Deref(binary).bit_count = 0

\* C4: every digit binary_clock_to_binary returns for a valid bit_count has
\* decimal_value equal to the MSB-first weighted sum of its first bit_count bits,
\* and every slot of bits from bit_count on is false.
C4_DigitInvariant ==
    (binary # NULL /\ bit_count \in 1..6)
    => /\ Deref(binary).decimal_value = WeightedSum(Deref(binary), 0)
       /\ \A i \in 1..6 : i > Deref(binary).bit_count => ~Deref(binary).bits[i]

C4_Witness ==
    /\ binary # NULL /\ bit_count = 5 /\ value = 243
    /\ Deref(binary).decimal_value = 19
    /\ Deref(binary).bits = <<TRUE, FALSE, FALSE, TRUE, TRUE, FALSE>>

-----------------------------------------------------------------------------
(* Properties of binary_clock_state_from_time, under SpecTime *)

C6_DigitDomain ==
    (state # NULL /\ time_comp # NULL /\ ValidTime(Deref(time_comp)))
    => LET st == Deref(state)
       IN  /\ st.hours_tens.decimal_value \in 0..2
           /\ st.minutes_tens.decimal_value \in 0..5
           /\ st.seconds_tens.decimal_value \in 0..5
           /\ st.hours_units.decimal_value \in 0..9
           /\ st.minutes_units.decimal_value \in 0..9
           /\ st.seconds_units.decimal_value \in 0..9

C6_Witness ==
    /\ state # NULL
    /\ time_comp = Ptr([hours |-> 23, minutes |-> 59, seconds |-> 59])
    /\ ShownTime(Deref(state)) = [tm_hour |-> 23, tm_min |-> 59, tm_sec |-> 59]

\* C7: for every input with hours > 23 or minutes > 59 or seconds > 59, and for a
\* null input, the state returned has timestamp 0 and all six digits zeroed.
C7_InvalidTimeRejected ==
    (state # NULL /\ (time_comp = NULL \/ ~ValidTime(Deref(time_comp))))
    => /\ Deref(state).timestamp = 0
       /\ AllDigitsZeroed(Deref(state))

C7_Witness ==
    /\ state # NULL
    /\ time_comp = Ptr([hours |-> 24, minutes |-> 0, seconds |-> 0])
    /\ now # 0
    /\ Deref(state).timestamp = 0

-----------------------------------------------------------------------------
(* Properties of the states the callers receive, under SpecClock *)

\* C8 as stated: every state returned by binary_clock_state_from_time or
\* binary_clock_get_current_state, for any input and any value of the clock, has
\* either a timestamp other than 0 and six valid digits, or timestamp 0 and six
\* zeroed digits.
C8_SentinelOrValid ==
    \A c \in Callers :
        ret[c] # NULL
        => LET st == Deref(ret[c])
           IN  \/ st.timestamp # 0 /\ AllDigitsValid(st)
               \/ st.timestamp = 0 /\ AllDigitsZeroed(st)

\* C8 as amended: every returned state has either a timestamp other than 0 and six
\* valid digits, or timestamp 0 and six digits that are all zeroed or all valid
\* (valid when time() returned 0 for the timestamp).
C8_SentinelOrValidAmended ==
    \A c \in Callers :
        ret[c] # NULL
        => LET st == Deref(ret[c])
           IN  \/ st.timestamp # 0 /\ AllDigitsValid(st)
               \/ st.timestamp = 0 /\ (AllDigitsZeroed(st) \/ AllDigitsValid(st))

C8_Witness ==
    \E c \in Callers :
        /\ pc[c] = "gcs_done"
        /\ Deref(ret[c]).timestamp = 0
        /\ AllDigitsValid(Deref(ret[c]))

\* C9: whenever time() returns -1 or localtime() returns NULL during
\* binary_clock_get_current_state, the state it returns has timestamp 0.
C9_ClockFailureYieldsSentinel ==
    \A c \in Callers :
        (pc[c] = "gcs_done" /\ failed[c]) => Deref(ret[c]).timestamp = 0

\* C10: under any interleaving of two callers of binary_clock_get_current_state,
\* the hours, minutes and seconds digits of each returned state all derive from
\* the one clock reading that caller's own localtime() call converted.
C10_OwnClockReading ==
    \A c \in Callers :
        (pc[c] = "gcs_done" /\ own[c] # NULL /\ AllDigitsValid(Deref(ret[c])))
        => ShownTime(Deref(ret[c])) = Deref(own[c])

-----------------------------------------------------------------------------
(* Properties of the display registry *)

\* the slots (source indices) that are active in the slot table reg
ActiveSlots(reg) == {i \in 0..(MAX_REGISTERED_DISPLAYS - 1) : reg[i + 1].active}

AllSlotsActive(reg) == Cardinality(ActiveSlots(reg)) = MAX_REGISTERED_DISPLAYS

\* C11: the registry holds at most 16 active slots; a register call with a
\* non-null renderer fails (-1) exactly when all 16 slots were active and
\* otherwise makes one more slot active, and a successful unregister makes
\* one slot fewer active.  Hence 16 registers from the empty registry succeed,
\* the 17th fails, and after one unregister one more register succeeds and
\* the next fails.
C11_Capacity ==
    /\ Cardinality(ActiveSlots(display_registry)) <= MAX_REGISTERED_DISPLAYS
    /\ (last.op = "register" /\ last.display_fn # NULL) =>
          /\ last.ret = -1 <=> AllSlotsActive(last.registry_before)
          /\ last.ret # -1 =>
                Cardinality(ActiveSlots(display_registry)) =
                   Cardinality(ActiveSlots(last.registry_before)) + 1
    /\ (last.op = "unregister" /\ last.ret = BINARY_CLOCK_SUCCESS) =>
          Cardinality(ActiveSlots(display_registry)) =
             Cardinality(ActiveSlots(last.registry_before)) - 1

\* 16 registers, the unregister of one, a 17th successful register and then
\* a register with a renderer that was turned away
C11_Witness ==
    /\ last.op = "register"
    /\ last.display_fn # NULL
    /\ last.ret = -1
    /\ next_registration_id = MAX_REGISTERED_DISPLAYS + 1
    /\ unregistered # {}
    /\ AllSlotsActive(display_registry)

\* the registrations (indices of issued) that were not unregistered
LiveRegistrations == {k \in 1..Len(issued) : issued[k].id \notin unregistered}

\* the invocations among calls made for registration k with the state p
InvocationsFor(calls, k, p) ==
    {j \in 1..Len(calls) :
        /\ holder[calls[j].slot + 1] = issued[k].id
        /\ calls[j].display_fn = issued[k].display_fn
        /\ calls[j].context = issued[k].context
        /\ calls[j].state = p}

\* every live registration is invoked exactly once with p, and nothing else is
FanOut(calls, p) ==
    /\ Len(calls) = Cardinality(LiveRegistrations)
    /\ \A k \in LiveRegistrations : Cardinality(InvocationsFor(calls, k, p)) = 1

\* C12: binary_clock_display_update_all_with_state with a non-null state
\* invokes each of the k active registrations exactly once, with that state
\* and with the renderer and context given at its registration, and nothing
\* else.
C12_FanOut ==
    (last.op = "update_all_with_state" /\ last.state # NULL) =>
        /\ Cardinality(LiveRegistrations) =
              Cardinality(ActiveSlots(display_registry))
        /\ FanOut(last.calls, last.state)

\* a dispatch to a full registry one slot of which was released and taken again,
\* with both renderers and both contexts among the invocations
C12_Witness ==
    /\ last.op = "update_all_with_state"
    /\ last.state # NULL
    /\ Len(last.calls) = MAX_REGISTERED_DISPLAYS
    /\ unregistered # {}
    /\ \E i, j \in 1..Len(last.calls) :
          /\ last.calls[i].context = NULL
          /\ last.calls[j].context # NULL
          /\ last.calls[i].display_fn # last.calls[j].display_fn

\* the last call was one of the two dispatching calls
Dispatched == last.op \in {"update_all_with_state", "update_all"}

\* C13: once unregister(id) has succeeded, no dispatch invokes anything for
\* the registration made under id: every invocation is made for the slot of
\* a registration that was not unregistered, with the renderer and context of
\* that registration, also when the slot was released before and taken again.
C13_UnregisteredNeverInvoked ==
    Dispatched =>
        \A j \in 1..Len(last.calls) :
            LET id == holder[last.calls[j].slot + 1] IN
               /\ id \notin unregistered
               /\ \E k \in 1..Len(issued) :
                     /\ issued[k].id = id
                     /\ issued[k].slot = last.calls[j].slot
                     /\ issued[k].display_fn = last.calls[j].display_fn
                     /\ issued[k].context = last.calls[j].context

\* a dispatch that invokes, in a slot released by unregister, the different
\* renderer registered into it afterwards
C13_Witness ==
    /\ Dispatched
    /\ \E k \in 1..Len(issued), j \in 1..Len(last.calls) :
          /\ issued[k].id \in unregistered
          /\ last.calls[j].slot = issued[k].slot
          /\ last.calls[j].display_fn # issued[k].display_fn

\* the last call left the slot table and the id counter as it found them
RegistryUntouched ==
    /\ display_registry = last.registry_before
    /\ next_registration_id = last.next_id_before

\* C14: register with a null renderer, or with all 16 slots active, returns
\* -1, and a register that returns -1 leaves the slot table and the id
\* counter unchanged.
C14_RegisterFailureAtomic ==
    last.op = "register" =>
        /\ (last.display_fn = NULL \/ AllSlotsActive(last.registry_before)) =>
              last.ret = -1
        /\ last.ret = -1 => RegistryUntouched

\* a null renderer turned away by a registry that holds registrations and
\* has free slots
C14_Witness ==
    /\ last.op = "register"
    /\ last.display_fn = NULL
    /\ last.ret = -1
    /\ ActiveSlots(display_registry) # {}
    /\ ~AllSlotsActive(display_registry)
    /\ next_registration_id > 0

\* some active slot of the slot table reg carries the id
IdActive(reg, id) ==
    \E i \in 1..MAX_REGISTERED_DISPLAYS : reg[i].active /\ reg[i].id = id

C16_ActiveIdsUnique ==
    \A i, j \in ActiveSlots(display_registry) :
        display_registry[i + 1].id = display_registry[j + 1].id => i = j

\* a full registry whose ids are out of slot order, one slot having been
\* released and taken again
C16_Witness ==
    /\ AllSlotsActive(display_registry)
    /\ \E i, j \in ActiveSlots(display_registry) :
          i < j /\ display_registry[i + 1].id > display_registry[j + 1].id

\* C17: the ids returned by successful register calls are strictly
\* increasing, so that no id is returned twice; no call makes the counter
\* smaller, and unregister leaves it as it is.
C17_IdsIncrease ==
    /\ \A k \in 1..(Len(issued) - 1) : issued[k].id < issued[k + 1].id
    /\ next_registration_id >= last.next_id_before
    /\ last.op = "unregister" => next_registration_id = last.next_id_before

\* C18: binary_clock_display_update_all_with_state with a NULL state invokes
\* no renderer and leaves the registry unchanged, whatever is registered.
C18_NullStateNoOp ==
    (last.op = "update_all_with_state" /\ last.state = NULL) =>
        /\ last.calls = <<>>
        /\ RegistryUntouched

\* a NULL state handed to a registry that holds both renderers
C18_Witness ==
    /\ last.op = "update_all_with_state"
    /\ last.state = NULL
    /\ \E i, j \in ActiveSlots(display_registry) :
          display_registry[i + 1].display_fn # display_registry[j + 1].display_fn

\* C19: binary_clock_display_update_all is binary_clock_get_current_state
\* followed by the dispatch of its result: one snapshot is taken, and every
\* active registration is invoked exactly once with that snapshot.
C19_UpdateAllComposition ==
    last.op = "update_all" =>
        \E st \in CurrentStates :
            /\ last.state = Ptr(st)
            /\ last.calls = binary_clock_display_update_all_with_state(
                                display_registry, Ptr(st))
            /\ FanOut(last.calls, Ptr(st))

\* an update of a full registry with the snapshot of 23:59:59
C19_Witness ==
    /\ last.op = "update_all"
    /\ Len(last.calls) = MAX_REGISTERED_DISPLAYS
    /\ Deref(last.state).timestamp = now
    /\ ShownTime(Deref(last.state)) = BrokenDownTime(now)
    /\ \A j \in 1..Len(last.calls) : last.calls[j].state = last.state

-----------------------------------------------------------------------------
(* Properties of the readable time *)

\* HH:MM:SS of a time of day, two decimal digits per component
ZeroPadded(tc) ==
    <<DecimalDigits[(tc.hours \div 10) + 1], DecimalDigits[(tc.hours % 10) + 1],
      ":",
      DecimalDigits[(tc.minutes \div 10) + 1], DecimalDigits[(tc.minutes % 10) + 1],
      ":",
      DecimalDigits[(tc.seconds \div 10) + 1], DecimalDigits[(tc.seconds % 10) + 1]>>

\* C20: for every valid time (h, m, s), the readable time computed from the
\* state of binary_clock_state_from_time, by
\* binary_clock_display_get_time_string into a buffer of 9 bytes and by
\* binary_clock_display_json for its "time" field, is the zero-padded input
\* HH:MM:SS.
C20_TimeStringRoundTrip ==
    (/\ time_comp # NULL
     /\ ValidTime(Deref(time_comp))
     /\ state # NULL
     /\ time_string # NULL
     /\ Deref(time_string).ok) =>
        Deref(time_string).text = ZeroPadded(Deref(time_comp))

\* 09:05:03 read back by binary_clock_display_get_time_string
C20_Witness ==
    /\ time_comp = Ptr(TimeComponents(9, 5, 3))
    /\ time_string # NULL
    /\ Deref(time_string).call = "get_time_string"
    /\ Deref(time_string).ok
    /\ Deref(time_string).text = <<"0", "9", ":", "0", "5", ":", "0", "3">>

-----------------------------------------------------------------------------
(* Properties of the command line program, under SpecCli *)

\* the arguments hold an unknown option or an unknown display mode
ArgumentError(argv) == parse_arguments(argv, 1, DefaultConfig).exit = 1

\* C21: the process exits with code 1 on an argument error or when a
\* binary_clock_get_current_state it called returned timestamp 0, and with
\* code 0 otherwise, in single mode and in loop mode; once a state with
\* timestamp 0 was returned the process has exited, and no renderer was
\* handed such a state.
C21_ExitCodes ==
    /\ cli.pc = "exited" =>
          cli.exit_code = IF ArgumentError(cli.argv) \/ cli.time_error
                          THEN 1 ELSE 0
    /\ cli.time_error => cli.pc = "exited" /\ cli.exit_code = 1
    /\ \A k \in 1..Len(cli.output) : Deref(cli.output[k].state).timestamp # 0

-----------------------------------------------------------------------------
(* Properties of the legacy to_binary, under SpecLegacy *)

\* bit k of a non-negative value
BitSet(val, k) == (val \div Pow2(k)) % 2 = 1

\* C22: after to_binary(value, bits, buffer) the first bits characters of
\* the buffer are the bits of value, most significant first ('1' for a set
\* bit), buffer[bits] is NUL, and every byte after buffer[bits] is what it
\* was before the call.
C22_LegacyBuffer ==
    legacy_buffer.pc = "written" =>
       /\ \A j \in 0..(legacy_buffer.bits - 1) :
             legacy_buffer.buffer[j + 1] =
                IF BitSet(legacy_buffer.value, legacy_buffer.bits - 1 - j)
                THEN "1" ELSE "0"
       /\ legacy_buffer.buffer[legacy_buffer.bits + 1] = "NUL"
       /\ \A j \in (legacy_buffer.bits + 1)..(LEGACY_BUFFER_SIZE - 1) :
             legacy_buffer.buffer[j + 1] = FilledBuffer[j + 1]

\* a six-bit call wrote 111011 for 59 and left buffer[7] as it was
C22_Witness ==
    /\ legacy_buffer.pc = "written"
    /\ legacy_buffer.value = 59
    /\ legacy_buffer.bits = 6
    /\ SubSeq(legacy_buffer.buffer, 1, 8) =
          <<"1", "1", "1", "0", "1", "1", "NUL", "X">>

-----------------------------------------------------------------------------
(* Properties of concurrent register calls, under SpecRace *)

\* both calls have returned and both had stopped their loop at the same slot
SameSlotChosen ==
    /\ \A t \in Callers : rthread[t].pc = "done"
    /\ rthread["A"].i = rthread["B"].i
    /\ rthread["A"].i \in 0..(MAX_REGISTERED_DISPLAYS - 1)

\* the slots that hold the renderer of one of the two calls
SlotsOfThreads ==
    {k \in ActiveSlots(display_registry) :
        \E t \in Callers :
           display_registry[k + 1].display_fn = rthread[t].display_fn}

\* C23: two register calls that run concurrently can both choose the same
\* inactive slot; then both return success, the slot was inactive before,
\* it is the only slot changed and the only one that holds a renderer of
\* the two calls, and two different returned ids are not both carried by
\* active slots.
C23_RaceLosesRegistration ==
    SameSlotChosen =>
       /\ \A t \in Callers : rthread[t].ret # -1
       /\ ~last.registry_before[rthread["A"].i + 1].active
       /\ \A k \in 1..MAX_REGISTERED_DISPLAYS :
             k # rthread["A"].i + 1 =>
                display_registry[k] = last.registry_before[k]
       /\ SlotsOfThreads = {rthread["A"].i}
       /\ rthread["A"].ret # rthread["B"].ret =>
             ~(IdActive(display_registry, rthread["A"].ret)
                  /\ IdActive(display_registry, rthread["B"].ret))

\* both calls chose the same slot and returned different ids, and the
\* renderer of thread A is registered nowhere
C23_Witness ==
    /\ SameSlotChosen
    /\ rthread["A"].ret # -1
    /\ rthread["B"].ret # -1
    /\ rthread["A"].ret # rthread["B"].ret
    /\ \A k \in 1..MAX_REGISTERED_DISPLAYS :
          display_registry[k].display_fn # rthread["A"].display_fn
    /\ ~IdActive(display_registry, rthread["A"].ret)

\* the slots of a registry that are active and carry the id
MatchingSlots(reg, id) ==
    {i \in 0..(MAX_REGISTERED_DISPLAYS - 1) :
        reg[i + 1].active /\ reg[i + 1].id = id}

\* C24: a successful unregister(id) found exactly one active slot with that
\* id; afterwards this slot is inactive and its renderer and context are
\* NULL, every other slot is as it was, and so is next_registration_id.
C24_UnregisterFrame ==
    last.op = "unregister" /\ last.ret = BINARY_CLOCK_SUCCESS =>
       /\ Cardinality(MatchingSlots(last.registry_before, last.id)) = 1
       /\ \A i \in 0..(MAX_REGISTERED_DISPLAYS - 1) :
             IF i \in MatchingSlots(last.registry_before, last.id)
             THEN /\ ~display_registry[i + 1].active
                  /\ display_registry[i + 1].display_fn = NULL
                  /\ display_registry[i + 1].context = NULL
             ELSE display_registry[i + 1] = last.registry_before[i + 1]
       /\ next_registration_id = last.next_id_before

\* a registration with a context was removed while another one stayed active
C24_Witness ==
    /\ last.op = "unregister"
    /\ last.ret = BINARY_CLOCK_SUCCESS
    /\ \E i \in MatchingSlots(last.registry_before, last.id) :
          last.registry_before[i + 1].context # NULL
    /\ ActiveSlots(display_registry) # {}

\* C25: an unregister call whose id was unregistered with success before
\* fails and leaves the registry and the counter as they were, whatever was
\* registered in between; no id that was unregistered is carried by an
\* active slot again.
C25_StaleHandle ==
    /\ last.op = "unregister" /\ last.stale =>
          /\ last.ret # BINARY_CLOCK_SUCCESS
          /\ RegistryUntouched
    /\ \A id \in unregistered : ~IdActive(display_registry, id)

\* a stale id was handed to unregister after its slot had been given to a
\* newer registration, which is still active
C25_Witness ==
    /\ last.op = "unregister"
    /\ last.stale
    /\ \E k \in 1..Len(issued) :
          /\ issued[k].id = last.id
          /\ display_registry[issued[k].slot + 1].active
          /\ display_registry[issued[k].slot + 1].id > last.id

-----------------------------------------------------------------------------
(* Properties of a dispatch whose renderers change the registry, under    *)
(* SpecReentrant                                                          *)

\* C26: every renderer a dispatch called was not NULL and its slot was
\* active when it was called; once a renderer called in this dispatch has
\* unregistered an id, no later call of the same dispatch is made for the
\* registration with that id.
C26_ReentrantDispatch ==
    \A k \in 1..Len(dispatch.calls) :
       /\ dispatch.calls[k].active
       /\ dispatch.calls[k].display_fn # NULL
       /\ \A r \in dispatch.removed :
             k > r.after => dispatch.calls[k].id # r.id

\* a dispatch has returned in which the renderer of slot 0 unregistered the
\* registration of a slot not reached yet, and a later slot was still called
C26_Witness ==
    /\ dispatch.pc = "done"
    /\ \E r \in dispatch.removed :
          /\ r.by = 0
          /\ r.id > 0
          /\ \E k \in 1..Len(dispatch.calls) : k > r.after

-----------------------------------------------------------------------------
(* Properties of the clock readings behind a returned state, under SpecClock *)

\* C27: in a state binary_clock_get_current_state returned with a timestamp
\* other than 0, the six digits show the local time of the clock reading
\* stored in timestamp, also when the clock advances during the call.
C27_TimestampMatchesDigits ==
    \A c \in Callers :
        (pc[c] = "gcs_done" /\ Deref(ret[c]).timestamp # 0)
        => ShownTime(Deref(ret[c])) = BrokenDownTime(Deref(ret[c]).timestamp)

\* midnight, as localtime() reports it
Midnight == [tm_hour |-> 0, tm_min |-> 0, tm_sec |-> 0]

\* C28: when no time() or localtime() call of binary_clock_get_current_state
\* failed and the local time it read is 00:00:00, the state it returns has a
\* timestamp other than 0 and six digits of value 0, three bits wide for the
\* tens and four bits wide for the units.
C28_MidnightIsNotFailure ==
    \A c \in Callers :
        (pc[c] = "gcs_done" /\ ~failed[c] /\ own[c] = Ptr(Midnight))
        => LET st == Deref(ret[c]) IN
              /\ st.timestamp # 0
              /\ DigitShows(st.hours_tens, 0, TENS_BITS)
              /\ DigitShows(st.hours_units, 0, UNITS_BITS)
              /\ DigitShows(st.minutes_tens, 0, TENS_BITS)
              /\ DigitShows(st.minutes_units, 0, UNITS_BITS)
              /\ DigitShows(st.seconds_tens, 0, TENS_BITS)
              /\ DigitShows(st.seconds_units, 0, UNITS_BITS)

-----------------------------------------------------------------------------
(* Properties of the order of registrations and invocations, under SpecRegistry *)

\* C29: the invocations of one dispatch are made in ascending order of slot
\* index; as long as no unregister call has succeeded this is the ascending
\* order of the ids, the order of registration; and a successful register
\* call takes the inactive slot of lowest index.
C29_DispatchOrder ==
    /\ Dispatched =>
          \A j, k \in 1..Len(last.calls) :
             j < k =>
                /\ last.calls[j].slot < last.calls[k].slot
                /\ unregistered = {} =>
                      display_registry[last.calls[j].slot + 1].id
                         < display_registry[last.calls[k].slot + 1].id
    /\ (last.op = "register" /\ last.ret # -1) =>
          LET slot == issued[Len(issued)].slot IN
             /\ issued[Len(issued)].id = last.ret
             /\ ~last.registry_before[slot + 1].active
             /\ \A i \in 0..(slot - 1) : last.registry_before[i + 1].active

\* a dispatch with no unregister before it invoked three registrations, which
\* had been given the slots 0, 1, 2 in the order they were made
C29_Witness ==
    /\ Dispatched
    /\ unregistered = {}
    /\ Len(last.calls) >= 3
    /\ Len(issued) = Len(last.calls)
    /\ \A k \in 1..Len(issued) : issued[k].slot = k - 1 /\ issued[k].id = k - 1

-----------------------------------------------------------------------------
(* Properties of binary_clock_to_decimal on hand-built values, under      *)
(* SpecHandBuilt                                                          *)

\* C30: for every binary_value_t, also one whose bit_count is 7..255,
\* binary_clock_to_decimal reads no element of bits[] other than
\* bits[0..5] and returns a value in 0..63.
C30_ToDecimalMemorySafe ==
    conv_pc = "recovered" =>
       /\ bits_read \subseteq 0..(BITS_CAPACITY - 1)
       /\ recovered \in 0..(Pow2(BITS_CAPACITY) - 1)

====
